---- MODULE Spec2Model ----
(***************************************************************************)
(* The chess rules engine of ChessUsingPython: Position, Piece, Board,     *)
(* MoveValidator, MoveHistory, CapturedPieces and GameState.make_move.     *)
(* A position is a pair <<row, col>>; a piece is a record holding the      *)
(* fields of model/piece.py; the board is the 8x8 grid of model/board.py.  *)
(***************************************************************************)
EXTENDS Integers, Sequences, FiniteSets, TLC

VARIABLES board, current_turn, move_history, captured_pieces, check_status,
          game_over, winner, last_move, ret, free,
          objects, grid, new_board, last_op, ops, moved,
          given, written, parsed,
          selected_position, legal_moves_cache, board_orientation, fullscreen,
          running, event

vars == <<board, current_turn, move_history, captured_pieces, check_status,
          game_over, winner, last_move, ret, free,
          objects, grid, new_board, last_op, ops, moved,
          given, written, parsed,
          selected_position, legal_moves_cache, board_orientation, fullscreen,
          running, event>>

(* the fields of GameController and of its BoardRenderer that the events *)
(* read and write, and the last event handled with the board position    *)
(* of its click; <<>> for None                                           *)
ctrl_vars == <<selected_position, legal_moves_cache, board_orientation, fullscreen,
               running, event>>

(* a Position given to to_algebraic, the string written for it or typed by *)
(* a caller, and what from_algebraic read from the string; <<>> for none    *)
text_vars == <<given, written, parsed>>

(* the variables of a game: a GameState, the value its last make_move *)
(* returned, and the count of calls with any arguments               *)
game_vars == <<board, current_turn, move_history, captured_pieces, check_status,
               game_over, winner, last_move, ret, free>>

(* two Board objects and the Piece objects their grids refer to, and the *)
(* last call of move_piece with what it returned                        *)
copy_vars == <<objects, grid, new_board, last_op, ops, moved>>

(* the fields of GameState, as make_move reads and writes them *)
gs_vars == <<board, current_turn, move_history, captured_pieces, check_status,
             game_over, winner, last_move>>

(***************************************************************************)
(* Bounds                                                                  *)
(***************************************************************************)
(* number of make_move calls whose arguments are any two squares *)
MaxFree == 1

(***************************************************************************)
(* Position                                                                *)
(***************************************************************************)
Rows == 0..7

Squares == Rows \X Rows

(* the ValueError raised by Position.__post_init__ *)
InvalidPosition == <<-1, -1>>

Position(row, col) ==
    IF row \in Rows /\ col \in Rows THEN <<row, col>> ELSE InvalidPosition

Files == <<"a", "b", "c", "d", "e", "f", "g", "h">>

Digits == <<"1", "2", "3", "4", "5", "6", "7", "8">>

(* chr(ord('a') + col) followed by str(8 - row) *)
to_algebraic(pos) == <<Files[pos[2] + 1], Digits[8 - pos[1]]>>

(* str.lower() on the letters that become a file; other characters are    *)
(* rejected by from_algebraic with or without it                          *)
lower(char) ==
    LET upper == <<"A", "B", "C", "D", "E", "F", "G", "H">>
    IN  IF \E i \in 1..8 : upper[i] = char
        THEN Files[CHOOSE i \in 1..8 : upper[i] = char]
        ELSE char

(* ord(file_char) - ord('a') for a file_char of 'a'..'h' *)
ord_from_a(file_char) == (CHOOSE i \in 1..8 : Files[i] = file_char) - 1

(* int(rank_char) for a rank_char of '1'..'8' *)
int(rank_char) == CHOOSE i \in 1..8 : Digits[i] = rank_char

(* the row read as the rank less one *)
from_algebraic_row_from_bottom(notation) ==
    IF Len(notation) # 2 THEN InvalidPosition
    ELSE LET file_char == lower(notation[1])
             rank_char == notation[2]
         IN  IF ~(\E i \in 1..8 : Files[i] = file_char) THEN InvalidPosition
             ELSE IF ~(\E i \in 1..8 : Digits[i] = rank_char) THEN InvalidPosition
             ELSE Position(int(rank_char) - 1, ord_from_a(file_char))

(* the Position, or InvalidPosition for the ValueError *)
from_algebraic(notation) ==
    IF Len(notation) # 2 THEN InvalidPosition
    ELSE LET file_char == lower(notation[1])
             rank_char == notation[2]
         IN  IF ~(\E i \in 1..8 : Files[i] = file_char) THEN InvalidPosition
             ELSE IF ~(\E i \in 1..8 : Digits[i] = rank_char) THEN InvalidPosition
             ELSE Position(8 - int(rank_char), ord_from_a(file_char))

abs(x) == IF x < 0 THEN -x ELSE x

(***************************************************************************)
(* Piece and Board                                                         *)
(***************************************************************************)
None == [piece_type |-> "None", color |-> "None", position |-> InvalidPosition,
         has_moved |-> FALSE]

Piece(piece_type, color, position) ==
    [piece_type |-> piece_type, color |-> color, position |-> position,
     has_moved |-> FALSE]

piece_copy(piece) ==
    [Piece(piece.piece_type, piece.color, piece.position)
        EXCEPT !.has_moved = piece.has_moved]

get_piece(b, position) ==
    IF position \in Squares THEN b[position] ELSE None

(* mutant: the piece placed keeps the position it had *)
set_piece_position_kept(b, position, piece) == [b EXCEPT ![position] = piece]

(* set_piece also rewrites the position field of the piece it places *)
set_piece(b, position, piece) ==
    [b EXCEPT ![position] =
        IF piece = None THEN None ELSE [piece EXCEPT !.position = position]]

(* the board after move_piece; the value returned is get_piece(b, end) *)
(* mutant: the moved piece is not marked as having moved *)
move_piece_unmarked(b, start, end) ==
    LET piece == get_piece(b, start)
        b1 == set_piece(b, end, piece)
    IN  set_piece(b1, start, None)

(* only a pawn is marked as having moved *)
move_piece_marks_pawns(b, start, end) ==
    LET piece == get_piece(b, start)
        b1 == set_piece(b, end, piece)
        b2 == set_piece(b1, start, None)
    IN  IF piece.piece_type = "P" THEN [b2 EXCEPT ![end].has_moved = TRUE] ELSE b2

move_piece(b, start, end) ==
    LET piece == get_piece(b, start)
        b1 == set_piece(b, end, piece)
        b2 == set_piece(b1, start, None)
    IN  [b2 EXCEPT ![end].has_moved = TRUE]

find_king(b, color) ==
    IF \E sq \in Squares : b[sq].piece_type = "K" /\ b[sq].color = color
    THEN CHOOSE sq \in Squares :
            /\ b[sq].piece_type = "K" /\ b[sq].color = color
            /\ \A o \in Squares :
                 (b[o].piece_type = "K" /\ b[o].color = color)
                    => (sq[1] < o[1] \/ (sq[1] = o[1] /\ sq[2] <= o[2]))
    ELSE InvalidPosition

get_all_pieces(b, color) == {sq \in Squares : b[sq].color = color}

board_copy(b) ==
    [sq \in Squares |-> IF b[sq] = None THEN None ELSE piece_copy(b[sq])]

BackRank == <<"R", "N", "B", "Q", "K", "B", "N", "R">>

setup_initial_position ==
    [sq \in Squares |->
        CASE sq[1] = 0 -> Piece(BackRank[sq[2] + 1], "black", sq)
          [] sq[1] = 1 -> Piece("P", "black", sq)
          [] sq[1] = 6 -> Piece("P", "white", sq)
          [] sq[1] = 7 -> Piece(BackRank[sq[2] + 1], "white", sq)
          [] OTHER -> None]

(* mutant: the colour itself *)
Opponent_same(color) == color

Opponent(color) == IF color = "white" THEN "black" ELSE "white"

(***************************************************************************)
(* Piece.get_possible_moves and MoveValidator (mutually recursive through  *)
(* King.get_possible_moves -> can_castle -> is_under_attack)               *)
(***************************************************************************)
RECURSIVE ray(_, _, _, _, _, _)
(* the while loop of Rook/Bishop/Queen.get_possible_moves along one direction *)
ray(b, color, row, col, dr, dc) ==
    IF ~(row \in Rows /\ col \in Rows) THEN {}
    ELSE LET target_piece == b[<<row, col>>]
         IN  IF target_piece = None
             THEN {<<row, col>>} \cup ray(b, color, row + dr, col + dc, dr, dc)
             ELSE IF target_piece.color # color THEN {<<row, col>>} ELSE {}

StraightDirections == {<<-1, 0>>, <<1, 0>>, <<0, -1>>, <<0, 1>>}

DiagonalDirections == {<<1, 1>>, <<1, -1>>, <<-1, 1>>, <<-1, -1>>}

knight_moves == {<<2, 1>>, <<2, -1>>, <<-2, 1>>, <<-2, -1>>,
                 <<1, 2>>, <<1, -2>>, <<-1, 2>>, <<-1, -2>>}

sliding_moves(b, piece, directions) ==
    UNION {ray(b, piece.color, piece.position[1] + d[1], piece.position[2] + d[2],
               d[1], d[2]) : d \in directions}

(* the fixed-offset loop of Knight and of King.get_possible_moves *)
(* mutant: squares holding a piece of the same colour are kept *)
step_moves_onto_own(b, piece, offsets) ==
    {pos \in {<<piece.position[1] + d[1], piece.position[2] + d[2]>> : d \in offsets} :
        pos[1] \in Rows /\ pos[2] \in Rows}

step_moves(b, piece, offsets) ==
    {pos \in {<<piece.position[1] + d[1], piece.position[2] + d[2]>> : d \in offsets} :
        /\ pos[1] \in Rows /\ pos[2] \in Rows
        /\ (b[pos] = None \/ b[pos].color # piece.color)}

(* mutant: the square directly ahead is not looked at for the two-square *)
(* advance                                                               *)
pawn_moves_jumping(b, piece) ==
    LET direction == IF piece.color = "white" THEN -1 ELSE 1
        row == piece.position[1]
        col == piece.position[2]
        forward_row == row + direction
        forward_two_row == row + 2 * direction
        forward ==
            (IF forward_row \in Rows /\ b[<<forward_row, col>>] = None
             THEN {<<forward_row, col>>} ELSE {}) \cup
            (IF /\ ~piece.has_moved
                /\ forward_two_row \in Rows
                /\ b[<<forward_two_row, col>>] = None
             THEN {<<forward_two_row, col>>} ELSE {})
        captures ==
            {pos \in {<<row + direction, col + col_offset>> : col_offset \in {-1, 1}} :
                /\ pos[1] \in Rows /\ pos[2] \in Rows
                /\ b[pos] # None /\ b[pos].color # piece.color}
    IN  forward \cup captures

(* mutant: has_moved is not looked at for the two-square advance *)
pawn_moves_twice_anytime(b, piece) ==
    LET direction == IF piece.color = "white" THEN -1 ELSE 1
        row == piece.position[1]
        col == piece.position[2]
        forward_row == row + direction
        forward_two_row == row + 2 * direction
        forward ==
            IF forward_row \in Rows /\ b[<<forward_row, col>>] = None
            THEN {<<forward_row, col>>} \cup
                 (IF /\ forward_two_row \in Rows
                     /\ b[<<forward_two_row, col>>] = None
                  THEN {<<forward_two_row, col>>} ELSE {})
            ELSE {}
        captures ==
            {pos \in {<<row + direction, col + col_offset>> : col_offset \in {-1, 1}} :
                /\ pos[1] \in Rows /\ pos[2] \in Rows
                /\ b[pos] # None /\ b[pos].color # piece.color}
    IN  forward \cup captures

pawn_moves(b, piece) ==
    LET direction == IF piece.color = "white" THEN -1 ELSE 1
        row == piece.position[1]
        col == piece.position[2]
        forward_row == row + direction
        forward_two_row == row + 2 * direction
        forward ==
            IF forward_row \in Rows /\ b[<<forward_row, col>>] = None
            THEN {<<forward_row, col>>} \cup
                 (IF /\ ~piece.has_moved
                     /\ forward_two_row \in Rows
                     /\ b[<<forward_two_row, col>>] = None
                  THEN {<<forward_two_row, col>>} ELSE {})
            ELSE {}
        captures ==
            {pos \in {<<row + direction, col + col_offset>> : col_offset \in {-1, 1}} :
                /\ pos[1] \in Rows /\ pos[2] \in Rows
                /\ b[pos] # None /\ b[pos].color # piece.color}
    IN  forward \cup captures

RECURSIVE get_possible_moves(_, _, _)
RECURSIVE is_under_attack(_, _, _)
RECURSIVE can_castle(_, _, _)

(* the squares the king crosses, built at move_validator.py:314-317; holds   *)
(* InvalidPosition when a Position constructor there raises                 *)
king_path(king_pos, rook_pos) ==
    LET direction == IF rook_pos[2] > king_pos[2] THEN 1 ELSE -1
    IN  {Position(king_pos[1], king_pos[2] + direction),
         Position(king_pos[1], king_pos[2] + 2 * direction)}

(* "True", "False", or "ValueError" when a Position constructor raises;     *)
(* the tests of lines 291 and 307-309 both return False and change nothing, *)
(* and are one disjunction here                                             *)
can_castle(b, king_pos, rook_pos) ==
    LET king == get_piece(b, king_pos)
        rook == get_piece(b, rook_pos)
        squares_between ==
            IF rook_pos[2] > king_pos[2]
            THEN (king_pos[2] + 1)..(rook_pos[2] - 1)
            ELSE (rook_pos[2] + 1)..(king_pos[2] - 1)
    IN  IF ~(king.piece_type = "K" /\ rook.piece_type = "R") THEN "False"
        ELSE IF king.color # rook.color THEN "False"
        ELSE IF king.has_moved \/ rook.has_moved THEN "False"
        ELSE IF \/ \E col \in squares_between : get_piece(b, <<king_pos[1], col>>) # None
                \/ is_under_attack(b, king_pos, king.color)
             THEN "False"
        ELSE IF InvalidPosition \in king_path(king_pos, rook_pos) THEN "ValueError"
        ELSE IF \E pos \in king_path(king_pos, rook_pos) :
                    is_under_attack(b, pos, king.color)
             THEN "False"
        ELSE "True"

(* the castling destinations King.get_possible_moves appends; holds         *)
(* InvalidPosition when can_castle or a Position constructor raises         *)
castling_moves(b, piece) ==
    LET row == piece.position[1]
        col == piece.position[2]
        kingside == can_castle(b, piece.position, Position(row, 7))
        queenside == can_castle(b, piece.position, Position(row, 0))
    IN  IF piece.has_moved THEN {}
        ELSE (IF kingside = "ValueError" THEN {InvalidPosition}
              ELSE IF kingside = "True" THEN {Position(row, col + 2)} ELSE {})
             \cup
             (IF queenside = "ValueError" THEN {InvalidPosition}
              ELSE IF queenside = "True" THEN {Position(row, col - 2)} ELSE {})

get_possible_moves(b, piece, include_castling) ==
    CASE piece.piece_type = "P" -> pawn_moves(b, piece)
      [] piece.piece_type = "R" -> sliding_moves(b, piece, StraightDirections)
      [] piece.piece_type = "N" -> step_moves(b, piece, knight_moves)
      [] piece.piece_type = "B" -> sliding_moves(b, piece, DiagonalDirections)
      [] piece.piece_type = "Q" ->
            sliding_moves(b, piece, StraightDirections \cup DiagonalDirections)
      [] piece.piece_type = "K" ->
            step_moves(b, piece, StraightDirections \cup DiagonalDirections)
            \cup (IF include_castling THEN castling_moves(b, piece) ELSE {})
      [] OTHER -> {}

(* mutant: the pieces of the defending colour are taken as the attackers *)
is_under_attack_by_own(b, position, defending_color) ==
    \E piece_pos \in get_all_pieces(b, defending_color) :
        position \in get_possible_moves(b, b[piece_pos], FALSE)

is_under_attack(b, position, defending_color) ==
    \E piece_pos \in get_all_pieces(b, Opponent(defending_color)) :
        position \in get_possible_moves(b, b[piece_pos], FALSE)

(* The nesting of the calls between castling generation and attack       *)
(* detection.  Each operator gives the depth of the deepest call nested  *)
(* in a call entered at depth d, and follows the calls no deeper than    *)
(* MaxDepth.                                                             *)
MaxDepth == 6

Deepest(S) == CHOOSE m \in S : \A n \in S : n <= m

RECURSIVE get_possible_moves_depth(_, _, _, _)
RECURSIVE can_castle_depth(_, _, _, _)
RECURSIVE is_under_attack_depth(_, _, _, _)

(* piece.get_possible_moves(board, include_castling): only King's calls *)
(* anything, can_castle for the rook of column 7 and of column 0        *)
get_possible_moves_depth(b, piece, include_castling, d) ==
    IF d >= MaxDepth THEN d
    ELSE IF piece.piece_type = "K" /\ include_castling /\ ~piece.has_moved
    THEN Deepest({d,
                  can_castle_depth(b, piece.position, <<piece.position[1], 7>>, d + 1),
                  can_castle_depth(b, piece.position, <<piece.position[1], 0>>, d + 1)})
    ELSE d

(* can_castle(board, king_pos, rook_pos): is_under_attack for the square of *)
(* the king and, when the king is not attacked and the squares between are  *)
(* empty, for the squares of king_path                                      *)
can_castle_depth(b, king_pos, rook_pos, d) ==
    LET king == get_piece(b, king_pos)
        rook == get_piece(b, rook_pos)
        squares_between ==
            IF rook_pos[2] > king_pos[2]
            THEN (king_pos[2] + 1)..(rook_pos[2] - 1)
            ELSE (rook_pos[2] + 1)..(king_pos[2] - 1)
    IN  IF d >= MaxDepth THEN d
        ELSE IF ~(king.piece_type = "K" /\ rook.piece_type = "R") THEN d
        ELSE IF king.color # rook.color THEN d
        ELSE IF king.has_moved \/ rook.has_moved THEN d
        ELSE IF \/ is_under_attack(b, king_pos, king.color)
                \/ \E col \in squares_between : get_piece(b, <<king_pos[1], col>>) # None
             THEN is_under_attack_depth(b, king_pos, king.color, d + 1)
        ELSE Deepest({is_under_attack_depth(b, king_pos, king.color, d + 1)} \cup
                     {is_under_attack_depth(b, pos, king.color, d + 1) :
                        pos \in king_path(king_pos, rook_pos) \ {InvalidPosition}})

(* mutant: the moves of the opposing king are generated with castling *)
is_under_attack_depth_with_castling(b, position, defending_color, d) ==
    IF d >= MaxDepth THEN d
    ELSE Deepest({d} \cup
                 {get_possible_moves_depth(b, b[piece_pos], TRUE, d + 1) :
                    piece_pos \in get_all_pieces(b, Opponent(defending_color))})

(* is_under_attack(board, position, defending_color): get_possible_moves of *)
(* the opponent's pieces, a King's with include_castling=False; the loop    *)
(* may return before the last piece, and all pieces are followed here       *)
is_under_attack_depth(b, position, defending_color, d) ==
    IF d >= MaxDepth THEN d
    ELSE Deepest({d} \cup
                 {get_possible_moves_depth(b, b[piece_pos], FALSE, d + 1) :
                    piece_pos \in get_all_pieces(b, Opponent(defending_color))})

(* mutant: the king's safety is tested on the board as it stands, without *)
(* the move being made on the copy                                       *)
would_leave_in_check_unmoved(b, start, end, color) ==
    LET king_pos == find_king(b, color)
    IN  IF king_pos = InvalidPosition THEN TRUE
        ELSE is_under_attack(b, king_pos, color)

(* the move is simulated and the attack on the king is not looked for *)
would_leave_in_check_kingless_only(b, start, end, color) ==
    LET board_copy_ == move_piece(board_copy(b), start, end)
    IN  find_king(board_copy_, color) = InvalidPosition

(* no simulation: every candidate is taken to leave the king safe *)
would_leave_in_check_never(b, start, end, color) == FALSE

(* the attack test made on the board before the move, for the king's end square *)
would_leave_in_check_on_board(b, start, end, color) ==
    LET board_copy_ == move_piece(board_copy(b), start, end)
        king_pos == find_king(board_copy_, color)
    IN  IF king_pos = InvalidPosition THEN TRUE
        ELSE is_under_attack(b, king_pos, color)

would_leave_in_check(b, start, end, color) ==
    LET board_copy_ == move_piece(board_copy(b), start, end)
        king_pos == find_king(board_copy_, color)
    IN  IF king_pos = InvalidPosition THEN TRUE
        ELSE is_under_attack(board_copy_, king_pos, color)

(* last_move is <<start, end, piece>>, or <<>> for Python's None *)
(* mutant: the opposing pawn is looked for on the board, beside the moving *)
(* pawn, and not in the last move                                         *)
is_en_passant_legal_by_board(b, start, end, last) ==
    LET piece == get_piece(b, start)
        correct_rank == IF piece.color = "white" THEN 3 ELSE 4
        direction == IF piece.color = "white" THEN -1 ELSE 1
        beside == get_piece(b, Position(start[1], end[2]))
    IN  /\ piece.piece_type = "P"
        /\ start[1] = correct_rank
        /\ end[1] = start[1] + direction
        /\ abs(end[2] - start[2]) = 1
        /\ beside.piece_type = "P"
        /\ beside.color # piece.color

(* the destination tested for its row only *)
is_en_passant_legal_any_column(b, start, end, last) ==
    IF last = <<>> THEN FALSE
    ELSE LET last_start == last[1]
             last_end == last[2]
             last_piece == last[3]
             piece == get_piece(b, start)
             correct_rank == IF piece.color = "white" THEN 3 ELSE 4
             direction == IF piece.color = "white" THEN -1 ELSE 1
             expected_end_row == start[1] + direction
             expected_end_col == last_end[2]
         IN  /\ piece.piece_type = "P"
             /\ last_piece.piece_type = "P"
             /\ last_piece.color # piece.color
             /\ start[1] = correct_rank
             /\ abs(last_end[1] - last_start[1]) = 2
             /\ last_end[1] = start[1]
             /\ abs(last_end[2] - start[2]) = 1
             /\ ~(end[1] # expected_end_row)

is_en_passant_legal(b, start, end, last) ==
    IF last = <<>> THEN FALSE
    ELSE LET last_start == last[1]
             last_end == last[2]
             last_piece == last[3]
             piece == get_piece(b, start)
             correct_rank == IF piece.color = "white" THEN 3 ELSE 4
             direction == IF piece.color = "white" THEN -1 ELSE 1
             expected_end_row == start[1] + direction
             expected_end_col == last_end[2]
         IN  /\ piece.piece_type = "P"
             /\ last_piece.piece_type = "P"
             /\ last_piece.color # piece.color
             /\ start[1] = correct_rank
             /\ abs(last_end[1] - last_start[1]) = 2
             /\ last_end[1] = start[1]
             /\ abs(last_end[2] - start[2]) = 1
             /\ ~(end[1] # expected_end_row \/ end[2] # expected_end_col)

would_leave_in_check_en_passant(b, start, end, color) ==
    LET captured_pawn_pos == Position(start[1], end[2])
        b1 == set_piece(board_copy(b), captured_pawn_pos, None)
        board_copy_ == move_piece(b1, start, end)
        king_pos == find_king(board_copy_, color)
    IN  IF king_pos = InvalidPosition THEN TRUE
        ELSE is_under_attack(board_copy_, king_pos, color)

(* the line of move_validator.py at which is_legal_move returns; 63 stands *)
(* for a ValueError leaving get_possible_moves at line 63                  *)
is_legal_move_exit(b, start, end, turn, last) ==
    LET piece == get_piece(b, start)
        target_piece == get_piece(b, end)
        possible_moves == get_possible_moves(b, piece, TRUE)
    IN  IF ~(start \in Squares /\ end \in Squares) THEN 39
        ELSE IF piece = None THEN 46
        ELSE IF piece.color # turn THEN 50
        ELSE IF start = end THEN 54
        ELSE IF target_piece # None /\ target_piece.color = piece.color THEN 61
        ELSE IF InvalidPosition \in possible_moves THEN 63
        ELSE IF piece.piece_type = "P" /\ end \notin possible_moves
             THEN IF /\ is_en_passant_legal(b, start, end, last)
                     /\ ~would_leave_in_check_en_passant(b, start, end, turn)
                  THEN 73 ELSE 74
        ELSE IF end \notin possible_moves THEN 77
        ELSE IF would_leave_in_check(b, start, end, turn) THEN 81
        ELSE 83

is_legal_move(b, start, end, turn, last) ==
    is_legal_move_exit(b, start, end, turn, last) \in {73, 83}

(***************************************************************************)
(* MoveHistory and CapturedPieces.  A notation is the sequence of the      *)
(* characters of the Python string.                                        *)
(***************************************************************************)
get_disambiguation(piece, start, end, b) ==
    LET same_type_pieces ==
            {pos \in Squares :
                /\ b[pos] # None
                /\ b[pos].piece_type = piece.piece_type
                /\ b[pos].color = piece.color
                /\ pos # start
                /\ end \in get_possible_moves(b, b[pos], TRUE)}
        same_file == \E pos \in same_type_pieces : pos[2] = start[2]
        same_rank == \E pos \in same_type_pieces : pos[1] = start[1]
    IN  IF same_type_pieces = {} THEN <<>>
        ELSE IF ~same_file THEN <<to_algebraic(start)[1]>>
        ELSE IF ~same_rank THEN <<to_algebraic(start)[2]>>
        ELSE to_algebraic(start)

(* the suffix chosen by is_check before is_checkmate *)
to_algebraic_notation_check_first(piece, start, end, is_capture, is_check, is_checkmate, is_castling, is_en_passant, b) ==
    LET move ==
            IF is_castling
            THEN IF end[2] > start[2] THEN <<"O", "-", "O">>
                 ELSE <<"O", "-", "O", "-", "O">>
            ELSE (IF piece.piece_type # "P"
                  THEN <<piece.piece_type>> \o get_disambiguation(piece, start, end, b)
                  ELSE IF is_capture THEN <<to_algebraic(start)[1]>> ELSE <<>>)
                 \o (IF is_capture THEN <<"x">> ELSE <<>>)
                 \o to_algebraic(end)
                 \o (IF is_en_passant THEN <<" ", "e", ".", "p", ".">> ELSE <<>>)
    IN  move \o (IF is_check THEN <<"+">> ELSE IF is_checkmate THEN <<"#">> ELSE <<>>)

(* a pawn capture written without the file of the origin *)
to_algebraic_notation_no_file(piece, start, end, is_capture, is_check, is_checkmate, is_castling, is_en_passant, b) ==
    LET move ==
            IF is_castling
            THEN IF end[2] > start[2] THEN <<"O", "-", "O">>
                 ELSE <<"O", "-", "O", "-", "O">>
            ELSE (IF piece.piece_type # "P"
                  THEN <<piece.piece_type>> \o get_disambiguation(piece, start, end, b)
                  ELSE <<>>)
                 \o (IF is_capture THEN <<"x">> ELSE <<>>)
                 \o to_algebraic(end)
                 \o (IF is_en_passant THEN <<" ", "e", ".", "p", ".">> ELSE <<>>)
    IN  move \o (IF is_checkmate THEN <<"#">> ELSE IF is_check THEN <<"+">> ELSE <<>>)

(* O-O for the king going to the lower column *)
to_algebraic_notation_sides_swapped(piece, start, end, is_capture, is_check, is_checkmate, is_castling, is_en_passant, b) ==
    LET move ==
            IF is_castling
            THEN IF end[2] < start[2] THEN <<"O", "-", "O">>
                 ELSE <<"O", "-", "O", "-", "O">>
            ELSE (IF piece.piece_type # "P"
                  THEN <<piece.piece_type>> \o get_disambiguation(piece, start, end, b)
                  ELSE IF is_capture THEN <<to_algebraic(start)[1]>> ELSE <<>>)
                 \o (IF is_capture THEN <<"x">> ELSE <<>>)
                 \o to_algebraic(end)
                 \o (IF is_en_passant THEN <<" ", "e", ".", "p", ".">> ELSE <<>>)
    IN  move \o (IF is_checkmate THEN <<"#">> ELSE IF is_check THEN <<"+">> ELSE <<>>)

to_algebraic_notation(piece, start, end, is_capture, is_check, is_checkmate, is_castling, is_en_passant, b) ==
    LET move ==
            IF is_castling
            THEN IF end[2] > start[2] THEN <<"O", "-", "O">>
                 ELSE <<"O", "-", "O", "-", "O">>
            ELSE (IF piece.piece_type # "P"
                  THEN <<piece.piece_type>> \o get_disambiguation(piece, start, end, b)
                  ELSE IF is_capture THEN <<to_algebraic(start)[1]>> ELSE <<>>)
                 \o (IF is_capture THEN <<"x">> ELSE <<>>)
                 \o to_algebraic(end)
                 \o (IF is_en_passant THEN <<" ", "e", ".", "p", ".">> ELSE <<>>)
    IN  move \o (IF is_checkmate THEN <<"#">> ELSE IF is_check THEN <<"+">> ELSE <<>>)

(* the new record takes the place of the last one *)
add_move_over_last(moves, piece, start, end, captured, is_check, is_checkmate, is_castling, is_en_passant, b) ==
    (IF moves = <<>> THEN <<>> ELSE SubSeq(moves, 1, Len(moves) - 1)) \o <<
        [move_number |-> (Len(moves) \div 2) + 1,
         player |-> piece.color,
         piece_type |-> piece.piece_type,
         start |-> start,
         end |-> end,
         captured_piece |-> captured.piece_type,
         is_check |-> is_check,
         is_checkmate |-> is_checkmate,
         is_castling |-> is_castling,
         is_en_passant |-> is_en_passant,
         algebraic_notation |->
            to_algebraic_notation(piece, start, end, captured # None, is_check,
                                  is_checkmate, is_castling, is_en_passant, b)]>>

(* the number taken from the count that includes the new record *)
add_move_counts_itself(moves, piece, start, end, captured, is_check, is_checkmate, is_castling, is_en_passant, b) ==
    Append(moves,
        [move_number |-> ((Len(moves) + 1) \div 2) + 1,
         player |-> piece.color,
         piece_type |-> piece.piece_type,
         start |-> start,
         end |-> end,
         captured_piece |-> captured.piece_type,
         is_check |-> is_check,
         is_checkmate |-> is_checkmate,
         is_castling |-> is_castling,
         is_en_passant |-> is_en_passant,
         algebraic_notation |->
            to_algebraic_notation(piece, start, end, captured # None, is_check,
                                  is_checkmate, is_castling, is_en_passant, b)])

(* the moves list after add_move; captured is a piece or None; the          *)
(* timestamp field (time.time()) is left out                                *)
add_move(moves, piece, start, end, captured, is_check, is_checkmate, is_castling, is_en_passant, b) ==
    Append(moves,
        [move_number |-> (Len(moves) \div 2) + 1,
         player |-> piece.color,
         piece_type |-> piece.piece_type,
         start |-> start,
         end |-> end,
         captured_piece |-> captured.piece_type,
         is_check |-> is_check,
         is_checkmate |-> is_checkmate,
         is_castling |-> is_castling,
         is_en_passant |-> is_en_passant,
         algebraic_notation |->
            to_algebraic_notation(piece, start, end, captured # None, is_check,
                                  is_checkmate, is_castling, is_en_passant, b)])

(* the kind is entered in the list of the colour that lost the piece *)
add_capture_by_loser(captured, piece_type, captured_by) ==
    IF captured_by = "white"
    THEN [captured EXCEPT !.black = Append(@, piece_type)]
    ELSE [captured EXCEPT !.white = Append(@, piece_type)]

(* captured_pieces is [white |-> white_captured, black |-> black_captured] *)
add_capture(captured, piece_type, captured_by) ==
    IF captured_by = "white"
    THEN [captured EXCEPT !.white = Append(@, piece_type)]
    ELSE [captured EXCEPT !.black = Append(@, piece_type)]

(***************************************************************************)
(* GameState.  gs is the record of the fields of a GameState object.       *)
(***************************************************************************)
GameState ==
    [board |-> setup_initial_position,
     current_turn |-> "white",
     move_history |-> <<>>,
     captured_pieces |-> [white |-> <<>>, black |-> <<>>],
     check_status |-> [white |-> FALSE, black |-> FALSE],
     game_over |-> FALSE,
     winner |-> "None",
     last_move |-> <<>>]

is_in_check(gs, color) ==
    LET king_pos == find_king(gs.board, color)
    IN  IF king_pos = InvalidPosition THEN FALSE
        ELSE is_under_attack(gs.board, king_pos, color)

get_legal_moves(gs, position) ==
    LET piece == get_piece(gs.board, position)
    IN  IF piece = None THEN {}
        ELSE {end_pos \in get_possible_moves(gs.board, piece, TRUE) :
                is_legal_move(gs.board, position, end_pos, piece.color, gs.last_move)}

has_legal_moves(gs, color) ==
    \E piece_pos \in get_all_pieces(gs.board, color) :
        get_legal_moves(gs, piece_pos) # {}

(* mutant: the candidate moves are not filtered for the king's safety *)
is_checkmate_unfiltered(gs, color) ==
    IF ~is_in_check(gs, color) THEN FALSE
    ELSE ~\E piece_pos \in get_all_pieces(gs.board, color) :
            get_possible_moves(gs.board, gs.board[piece_pos], TRUE) # {}

is_checkmate(gs, color) ==
    IF ~is_in_check(gs, color) THEN FALSE ELSE ~has_legal_moves(gs, color)

(* mutant: the candidate moves are not filtered for the king's safety *)
is_stalemate_unfiltered(gs) ==
    IF is_in_check(gs, gs.current_turn) THEN FALSE
    ELSE ~\E piece_pos \in get_all_pieces(gs.board, gs.current_turn) :
            get_possible_moves(gs.board, gs.board[piece_pos], TRUE) # {}

is_stalemate(gs) ==
    IF is_in_check(gs, gs.current_turn) THEN FALSE
    ELSE ~has_legal_moves(gs, gs.current_turn)

(* row-major order of the scans of board.py *)
Before(p, q) == p[1] < q[1] \/ (p[1] = q[1] /\ p[2] < q[2])

(* _has_legal_moves is left by a ValueError of get_possible_moves before it *)
(* has found a piece with a legal move                                      *)
has_legal_moves_raises(gs, color) ==
    \E piece_pos \in get_all_pieces(gs.board, color) :
        /\ InvalidPosition \in get_possible_moves(gs.board, gs.board[piece_pos], TRUE)
        /\ \A other \in get_all_pieces(gs.board, color) :
              Before(other, piece_pos) => get_legal_moves(gs, other) = {}

(* lines 186-241 without the removal of the pawn at lines 214-217 *)
make_move_board_pawn_not_taken(gs, start, end) ==
    LET piece == get_piece(gs.board, start)
        is_castling == piece.piece_type = "K" /\ abs(end[2] - start[2]) = 2
        rook_start == IF end[2] > start[2] THEN Position(start[1], 7)
                      ELSE Position(start[1], 0)
        rook_end == IF end[2] > start[2] THEN Position(start[1], start[2] + 1)
                    ELSE Position(start[1], start[2] - 1)
        b1 == IF is_castling /\ get_piece(gs.board, rook_start) # None
              THEN move_piece(gs.board, rook_start, rook_end)
              ELSE gs.board
        is_en_passant ==
            piece.piece_type = "P" /\ start[2] # end[2] /\ get_piece(b1, end) = None
        captured_pawn_pos == Position(start[1], end[2])
        captured_en_passant_piece ==
            IF is_en_passant THEN get_piece(b1, captured_pawn_pos) ELSE None
        b2 == b1
        b3 == move_piece(b2, start, end)
        captured_piece ==
            IF is_en_passant /\ captured_en_passant_piece # None
            THEN captured_en_passant_piece
            ELSE get_piece(b2, end)
        promotion_row == IF piece.color = "white" THEN 0 ELSE 7
        promoted == piece.piece_type = "P" /\ end[1] = promotion_row
        b4 == IF promoted
              THEN set_piece(b3, end, [Piece("Q", piece.color, end) EXCEPT !.has_moved = TRUE])
              ELSE b3
    IN  [board |-> b4,
         piece |-> b3[end],
         captured_piece |-> captured_piece,
         is_castling |-> is_castling,
         is_en_passant |-> is_en_passant]

(* lines 186-241 without the rook move of lines 192-205 *)
make_move_board_rook_stays(gs, start, end) ==
    LET piece == get_piece(gs.board, start)
        is_castling == piece.piece_type = "K" /\ abs(end[2] - start[2]) = 2
        rook_start == IF end[2] > start[2] THEN Position(start[1], 7)
                      ELSE Position(start[1], 0)
        rook_end == IF end[2] > start[2] THEN Position(start[1], start[2] + 1)
                    ELSE Position(start[1], start[2] - 1)
        b1 == gs.board
        is_en_passant ==
            piece.piece_type = "P" /\ start[2] # end[2] /\ get_piece(b1, end) = None
        captured_pawn_pos == Position(start[1], end[2])
        captured_en_passant_piece ==
            IF is_en_passant THEN get_piece(b1, captured_pawn_pos) ELSE None
        b2 == IF is_en_passant THEN set_piece(b1, captured_pawn_pos, None) ELSE b1
        b3 == move_piece(b2, start, end)
        captured_piece ==
            IF is_en_passant /\ captured_en_passant_piece # None
            THEN captured_en_passant_piece
            ELSE get_piece(b2, end)
        promotion_row == IF piece.color = "white" THEN 0 ELSE 7
        promoted == piece.piece_type = "P" /\ end[1] = promotion_row
        b4 == IF promoted
              THEN set_piece(b3, end, [Piece("Q", piece.color, end) EXCEPT !.has_moved = TRUE])
              ELSE b3
    IN  [board |-> b4,
         piece |-> b3[end],
         captured_piece |-> captured_piece,
         is_castling |-> is_castling,
         is_en_passant |-> is_en_passant]

(* lines 186-241 without the promotion of lines 230-241 *)
make_move_board_pawn_stays(gs, start, end) ==
    LET piece == get_piece(gs.board, start)
        is_castling == piece.piece_type = "K" /\ abs(end[2] - start[2]) = 2
        rook_start == IF end[2] > start[2] THEN Position(start[1], 7)
                      ELSE Position(start[1], 0)
        rook_end == IF end[2] > start[2] THEN Position(start[1], start[2] + 1)
                    ELSE Position(start[1], start[2] - 1)
        b1 == IF is_castling /\ get_piece(gs.board, rook_start) # None
              THEN move_piece(gs.board, rook_start, rook_end)
              ELSE gs.board
        is_en_passant ==
            piece.piece_type = "P" /\ start[2] # end[2] /\ get_piece(b1, end) = None
        captured_pawn_pos == Position(start[1], end[2])
        captured_en_passant_piece ==
            IF is_en_passant THEN get_piece(b1, captured_pawn_pos) ELSE None
        b2 == IF is_en_passant THEN set_piece(b1, captured_pawn_pos, None) ELSE b1
        b3 == move_piece(b2, start, end)
        captured_piece ==
            IF is_en_passant /\ captured_en_passant_piece # None
            THEN captured_en_passant_piece
            ELSE get_piece(b2, end)
        promotion_row == IF piece.color = "white" THEN 0 ELSE 7
        promoted == piece.piece_type = "P" /\ end[1] = promotion_row
        b4 == b3
    IN  [board |-> b4,
         piece |-> b3[end],
         captured_piece |-> captured_piece,
         is_castling |-> is_castling,
         is_en_passant |-> is_en_passant]

(* make_move, lines 186-241: the castling rook, the pawn taken en passant,  *)
(* the move itself and the promotion; the board they leave, the piece that *)
(* moved as move_piece has left it, and what the later steps go by         *)
make_move_board(gs, start, end) ==
    LET piece == get_piece(gs.board, start)
        is_castling == piece.piece_type = "K" /\ abs(end[2] - start[2]) = 2
        rook_start == IF end[2] > start[2] THEN Position(start[1], 7)
                      ELSE Position(start[1], 0)
        rook_end == IF end[2] > start[2] THEN Position(start[1], start[2] + 1)
                    ELSE Position(start[1], start[2] - 1)
        b1 == IF is_castling /\ get_piece(gs.board, rook_start) # None
              THEN move_piece(gs.board, rook_start, rook_end)
              ELSE gs.board
        is_en_passant ==
            piece.piece_type = "P" /\ start[2] # end[2] /\ get_piece(b1, end) = None
        captured_pawn_pos == Position(start[1], end[2])
        captured_en_passant_piece ==
            IF is_en_passant THEN get_piece(b1, captured_pawn_pos) ELSE None
        b2 == IF is_en_passant THEN set_piece(b1, captured_pawn_pos, None) ELSE b1
        b3 == move_piece(b2, start, end)
        captured_piece ==
            IF is_en_passant /\ captured_en_passant_piece # None
            THEN captured_en_passant_piece
            ELSE get_piece(b2, end)
        promotion_row == IF piece.color = "white" THEN 0 ELSE 7
        promoted == piece.piece_type = "P" /\ end[1] = promotion_row
        b4 == IF promoted
              THEN set_piece(b3, end, [Piece("Q", piece.color, end) EXCEPT !.has_moved = TRUE])
              ELSE b3
    IN  [board |-> b4,
         piece |-> b3[end],
         captured_piece |-> captured_piece,
         is_castling |-> is_castling,
         is_en_passant |-> is_en_passant]

(* make_move, lines 254-282, for the outcome found at lines 254-265        *)
(* ("checkmate", "stalemate", "none", or "ValueError" when                 *)
(* _has_legal_moves raises): the value returned and the game state left    *)
make_move_record(gs2, start, end, mv, outcome) ==
    IF outcome = "ValueError" THEN [ret |-> "ValueError", gs |-> gs2]
    ELSE [ret |-> "True",
          gs |-> [gs2 EXCEPT
                    !.game_over = IF outcome # "none" THEN TRUE ELSE @,
                    !.winner = IF outcome = "checkmate" THEN mv.piece.color
                               ELSE IF outcome = "stalemate" THEN "None" ELSE @,
                    !.move_history =
                        add_move(@, mv.piece, start, end, mv.captured_piece,
                                 gs2.check_status[gs2.current_turn],
                                 outcome = "checkmate", mv.is_castling,
                                 mv.is_en_passant, gs2.board)]]

(* lines 254-265 without the stalemate test of lines 262-265 *)
make_move_outcome_mate_only(gs2) ==
    IF has_legal_moves_raises(gs2, gs2.current_turn) THEN "ValueError"
    ELSE IF is_checkmate(gs2, gs2.current_turn) THEN "checkmate"
    ELSE "none"

(* make_move, lines 254-265: checkmate or stalemate of the side to move *)
make_move_outcome(gs2) ==
    IF has_legal_moves_raises(gs2, gs2.current_turn) THEN "ValueError"
    ELSE IF is_checkmate(gs2, gs2.current_turn) THEN "checkmate"
    ELSE IF is_stalemate(gs2) THEN "stalemate"
    ELSE "none"

(* check_status recomputed for the side to move only *)
make_move_status_patched(gs, mv, start, end) ==
    LET gs1 == [gs EXCEPT
                  !.board = mv.board,
                  !.captured_pieces =
                      IF mv.captured_piece # None
                      THEN add_capture(@, mv.captured_piece.piece_type, mv.piece.color)
                      ELSE @,
                  !.last_move = <<start, end, mv.piece>>,
                  !.current_turn = Opponent(gs.current_turn)]
    IN  [gs1 EXCEPT !.check_status[gs1.current_turn] =
                        is_in_check(gs1, gs1.current_turn)]

(* make_move, lines 226-252, for the move mv made on the board: captures,  *)
(* last_move, the turn and check_status                                    *)
make_move_status(gs, mv, start, end) ==
    LET gs1 == [gs EXCEPT
                  !.board = mv.board,
                  !.captured_pieces =
                      IF mv.captured_piece # None
                      THEN add_capture(@, mv.captured_piece.piece_type, mv.piece.color)
                      ELSE @,
                  !.last_move = <<start, end, mv.piece>>,
                  !.current_turn = Opponent(gs.current_turn)]
    IN  [gs1 EXCEPT !.check_status = [white |-> is_in_check(gs1, "white"),
                                      black |-> is_in_check(gs1, "black")]]

(* with gs2 the game state at line 252 *)
make_move_end(gs2, start, end, mv) ==
    make_move_record(gs2, start, end, mv, make_move_outcome(gs2))

(* with mv the move as made on the board at lines 186-241 *)
make_move_played(gs, start, end, mv) ==
    make_move_end(make_move_status(gs, mv, start, end), start, end, mv)

(* make_move from line 186 on, once the move has been found legal: the      *)
(* value returned ("True", or "ValueError" for an exception leaving the     *)
(* call) and the game state the call leaves behind                          *)
apply_move(gs, start, end) ==
    make_move_played(gs, start, end, make_move_board(gs, start, end))

(* mutant: the piece is moved on the board before the move is validated *)
make_move_moves_first(gs, start, end) ==
    LET piece == get_piece(gs.board, start)
        legal == is_legal_move_exit(gs.board, start, end, piece.color, gs.last_move)
    IN  IF piece = None THEN [ret |-> "False", gs |-> gs]
        ELSE IF piece.color # gs.current_turn THEN [ret |-> "False", gs |-> gs]
        ELSE IF legal \notin {73, 83}
             THEN [ret |-> "False",
                   gs |-> [gs EXCEPT !.board = move_piece(gs.board, start, end)]]
        ELSE apply_move(gs, start, end)

(* make_move(start, end) on the game state gs: the value returned ("True",  *)
(* "False", or "ValueError" for an exception leaving the call) and the      *)
(* game state the call leaves behind                                        *)
make_move(gs, start, end) ==
    LET piece == get_piece(gs.board, start)
        legal == is_legal_move_exit(gs.board, start, end, piece.color, gs.last_move)
    IN  IF piece = None THEN [ret |-> "False", gs |-> gs]
        ELSE IF piece.color # gs.current_turn THEN [ret |-> "False", gs |-> gs]
        ELSE IF legal = 63 THEN [ret |-> "ValueError", gs |-> gs]
        ELSE IF legal \notin {73, 83} THEN [ret |-> "False", gs |-> gs]
        ELSE apply_move(gs, start, end)

(***************************************************************************)
(* The caller.  The arguments of a make_move call are either the next move *)
(* of one of the games of Book that the moves played so far are a prefix   *)
(* of, or, at most MaxFree times and while the moves played so far are    *)
(* still a prefix of a game of Book, any two squares.                      *)
(***************************************************************************)
(* 1.f3 e5 2.g4 Qh4# *)
FoolsMate ==
    <<<<<<6, 5>>, <<5, 5>>>>,
      <<<<1, 4>>, <<3, 4>>>>,
      <<<<6, 6>>, <<4, 6>>>>,
      <<<<0, 3>>, <<4, 7>>>>>>

(* 1.e4 a6 2.e5 d5 3.exd6 e.p. *)
EnPassantLine ==
    <<<<<<6, 4>>, <<4, 4>>>>,
      <<<<1, 0>>, <<2, 0>>>>,
      <<<<4, 4>>, <<3, 4>>>>,
      <<<<1, 3>>, <<3, 3>>>>,
      <<<<3, 4>>, <<2, 3>>>>>>

(* 1.e4 a6 2.e5 d5 3.a3 a5, then e5xd6 is attempted *)
LateEnPassantLine ==
    <<<<<<6, 4>>, <<4, 4>>>>,
      <<<<1, 0>>, <<2, 0>>>>,
      <<<<4, 4>>, <<3, 4>>>>,
      <<<<1, 3>>, <<3, 3>>>>,
      <<<<6, 0>>, <<5, 0>>>>,
      <<<<2, 0>>, <<3, 0>>>>,
      <<<<3, 4>>, <<2, 3>>>>>>

(* 1.e4 e5 2.Nf3 Nf6 3.Bc4 Bc5 4.O-O O-O *)
KingsideLine ==
    <<<<<<6, 4>>, <<4, 4>>>>,
      <<<<1, 4>>, <<3, 4>>>>,
      <<<<7, 6>>, <<5, 5>>>>,
      <<<<0, 6>>, <<2, 5>>>>,
      <<<<7, 5>>, <<4, 2>>>>,
      <<<<0, 5>>, <<3, 2>>>>,
      <<<<7, 4>>, <<7, 6>>>>,
      <<<<0, 4>>, <<0, 6>>>>>>

(* 1.d4 d5 2.Nc3 Nc6 3.Bf4 Bf5 4.Qd2 Qd7 5.O-O-O O-O-O *)
QueensideLine ==
    <<<<<<6, 3>>, <<4, 3>>>>,
      <<<<1, 3>>, <<3, 3>>>>,
      <<<<7, 1>>, <<5, 2>>>>,
      <<<<0, 1>>, <<2, 2>>>>,
      <<<<7, 2>>, <<4, 5>>>>,
      <<<<0, 2>>, <<3, 5>>>>,
      <<<<7, 3>>, <<6, 3>>>>,
      <<<<0, 3>>, <<1, 3>>>>,
      <<<<7, 4>>, <<7, 2>>>>,
      <<<<0, 4>>, <<0, 2>>>>>>

(* 1.e4 d5 2.exd5 e5 3.Nf3 e4 4.Bc4 e3 5.a3 e2 6.O-O *)
PawnGuardLine ==
    <<<<<<6, 4>>, <<4, 4>>>>,
      <<<<1, 3>>, <<3, 3>>>>,
      <<<<4, 4>>, <<3, 3>>>>,
      <<<<1, 4>>, <<3, 4>>>>,
      <<<<7, 6>>, <<5, 5>>>>,
      <<<<3, 4>>, <<4, 4>>>>,
      <<<<7, 5>>, <<4, 2>>>>,
      <<<<4, 4>>, <<5, 4>>>>,
      <<<<6, 0>>, <<5, 0>>>>,
      <<<<5, 4>>, <<6, 4>>>>,
      <<<<7, 4>>, <<7, 6>>>>>>

(* 1.e3 a5 2.Qh5 Ra6 3.Qxa5 h5 4.h4 Rah6 5.Qxc7 f6 6.Qxd7+ Kf7 7.Qxb7 Qd3 8.Qxb8 Qh7 9.Qxc8 Kg6 10.Qe6 *)
StalemateLine ==
    <<<<<<6, 4>>, <<5, 4>>>>,
      <<<<1, 0>>, <<3, 0>>>>,
      <<<<7, 3>>, <<3, 7>>>>,
      <<<<0, 0>>, <<2, 0>>>>,
      <<<<3, 7>>, <<3, 0>>>>,
      <<<<1, 7>>, <<3, 7>>>>,
      <<<<6, 7>>, <<4, 7>>>>,
      <<<<2, 0>>, <<2, 7>>>>,
      <<<<3, 0>>, <<1, 2>>>>,
      <<<<1, 5>>, <<2, 5>>>>,
      <<<<1, 2>>, <<1, 3>>>>,
      <<<<0, 4>>, <<1, 5>>>>,
      <<<<1, 3>>, <<1, 1>>>>,
      <<<<0, 3>>, <<5, 3>>>>,
      <<<<1, 1>>, <<0, 1>>>>,
      <<<<5, 3>>, <<1, 7>>>>,
      <<<<0, 1>>, <<0, 2>>>>,
      <<<<1, 5>>, <<2, 6>>>>,
      <<<<0, 2>>, <<2, 4>>>>>>

(* 1.h4 h6 2.h5 Nc6 3.g4 Nb8 4.e3 Nc6 5.Ne2 Nb8 6.Ng3 Nc6 7.f3 Nb8 8.Kf2 Nc6 9.Kg2 Nb8 10.Kh3 Nc6 11.Kh4 Nb8 12.Rh3 g5, then 13.hxg6 e.p. *)
ForcedEnPassantLine ==
    <<<<<<6, 7>>, <<4, 7>>>>,
      <<<<1, 7>>, <<2, 7>>>>,
      <<<<4, 7>>, <<3, 7>>>>,
      <<<<0, 1>>, <<2, 2>>>>,
      <<<<6, 6>>, <<4, 6>>>>,
      <<<<2, 2>>, <<0, 1>>>>,
      <<<<6, 4>>, <<5, 4>>>>,
      <<<<0, 1>>, <<2, 2>>>>,
      <<<<7, 6>>, <<6, 4>>>>,
      <<<<2, 2>>, <<0, 1>>>>,
      <<<<6, 4>>, <<5, 6>>>>,
      <<<<0, 1>>, <<2, 2>>>>,
      <<<<6, 5>>, <<5, 5>>>>,
      <<<<2, 2>>, <<0, 1>>>>,
      <<<<7, 4>>, <<6, 5>>>>,
      <<<<0, 1>>, <<2, 2>>>>,
      <<<<6, 5>>, <<6, 6>>>>,
      <<<<2, 2>>, <<0, 1>>>>,
      <<<<6, 6>>, <<5, 7>>>>,
      <<<<0, 1>>, <<2, 2>>>>,
      <<<<5, 7>>, <<4, 7>>>>,
      <<<<2, 2>>, <<0, 1>>>>,
      <<<<7, 7>>, <<5, 7>>>>,
      <<<<1, 6>>, <<3, 6>>>>,
      <<<<3, 7>>, <<2, 6>>>>>>

(* 1.e4 e5 2.Qh5, then f7-f6 is attempted (the pawn shields e8 from h5) *)
PinLine ==
    <<<<<<6, 4>>, <<4, 4>>>>,
      <<<<1, 4>>, <<3, 4>>>>,
      <<<<7, 3>>, <<3, 7>>>>,
      <<<<1, 5>>, <<2, 5>>>>>>

(* 1.e3 e6 2.Be2 Be7 3.Nf3 Nf6 4.Kf1 Kf8 5.Kg1 Kg8 6.Kf1 Kf8 7.Ke1 Ke8, then e1-g1 is attempted *)
KingWalkLine ==
    <<<<<<6, 4>>, <<5, 4>>>>,
      <<<<1, 4>>, <<2, 4>>>>,
      <<<<7, 5>>, <<6, 4>>>>,
      <<<<0, 5>>, <<1, 4>>>>,
      <<<<7, 6>>, <<5, 5>>>>,
      <<<<0, 6>>, <<2, 5>>>>,
      <<<<7, 4>>, <<7, 5>>>>,
      <<<<0, 4>>, <<0, 5>>>>,
      <<<<7, 5>>, <<7, 6>>>>,
      <<<<0, 5>>, <<0, 6>>>>,
      <<<<7, 6>>, <<7, 5>>>>,
      <<<<0, 6>>, <<0, 5>>>>,
      <<<<7, 5>>, <<7, 4>>>>,
      <<<<0, 5>>, <<0, 4>>>>,
      <<<<7, 4>>, <<7, 6>>>>>>

(* 1.h4 g5 2.hxg5 h6 3.gxh6 a6 4.h7 a5 5.hxg8=Q *)
PromotionLine ==
    <<<<<<6, 7>>, <<4, 7>>>>,
      <<<<1, 6>>, <<3, 6>>>>,
      <<<<4, 7>>, <<3, 6>>>>,
      <<<<1, 7>>, <<2, 7>>>>,
      <<<<3, 6>>, <<2, 7>>>>,
      <<<<1, 0>>, <<2, 0>>>>,
      <<<<2, 7>>, <<1, 7>>>>,
      <<<<2, 0>>, <<3, 0>>>>,
      <<<<1, 7>>, <<0, 6>>>>>>

(* 1.e4 d5 2.exd5 e6 3.dxe6 Nf6 4.exf7+ Kxf7 5.a3 Bd6 6.a4 Re8+ *)
RookCheckLine ==
    <<<<<<6, 4>>, <<4, 4>>>>,
      <<<<1, 3>>, <<3, 3>>>>,
      <<<<4, 4>>, <<3, 3>>>>,
      <<<<1, 4>>, <<2, 4>>>>,
      <<<<3, 3>>, <<2, 4>>>>,
      <<<<0, 6>>, <<2, 5>>>>,
      <<<<2, 4>>, <<1, 5>>>>,
      <<<<0, 4>>, <<1, 5>>>>,
      <<<<6, 0>>, <<5, 0>>>>,
      <<<<0, 5>>, <<2, 3>>>>,
      <<<<5, 0>>, <<4, 0>>>>,
      <<<<0, 7>>, <<0, 4>>>>>>

(* 1.e4 d5 2.exd5 e6 3.dxe6 Nf6 4.exf7+ Kxf7 5.Ke2 Bd6 6.a3 Re8+ *)
RookCheckKingE2Line ==
    <<<<<<6, 4>>, <<4, 4>>>>,
      <<<<1, 3>>, <<3, 3>>>>,
      <<<<4, 4>>, <<3, 3>>>>,
      <<<<1, 4>>, <<2, 4>>>>,
      <<<<3, 3>>, <<2, 4>>>>,
      <<<<0, 6>>, <<2, 5>>>>,
      <<<<2, 4>>, <<1, 5>>>>,
      <<<<0, 4>>, <<1, 5>>>>,
      <<<<7, 4>>, <<6, 4>>>>,
      <<<<0, 5>>, <<2, 3>>>>,
      <<<<6, 0>>, <<5, 0>>>>,
      <<<<0, 7>>, <<0, 4>>>>>>

(* 1.a3 h5 2.a4 h4 3.a5 h3 4.a6 hxg2 5.axb7 gxh1=Q 6.bxa8=Q *)
BlackPromotionLine ==
    <<<<<<6, 0>>, <<5, 0>>>>,
      <<<<1, 7>>, <<3, 7>>>>,
      <<<<5, 0>>, <<4, 0>>>>,
      <<<<3, 7>>, <<4, 7>>>>,
      <<<<4, 0>>, <<3, 0>>>>,
      <<<<4, 7>>, <<5, 7>>>>,
      <<<<3, 0>>, <<2, 0>>>>,
      <<<<5, 7>>, <<6, 6>>>>,
      <<<<2, 0>>, <<1, 1>>>>,
      <<<<6, 6>>, <<7, 7>>>>,
      <<<<1, 1>>, <<0, 0>>>>>>

(* 1.e4 e6 2.e5 Ke7 3.a3 d5 4.exd6+ e.p. *)
EnPassantCheckLine ==
    <<<<<<6, 4>>, <<4, 4>>>>,
      <<<<1, 4>>, <<2, 4>>>>,
      <<<<4, 4>>, <<3, 4>>>>,
      <<<<0, 4>>, <<1, 4>>>>,
      <<<<6, 0>>, <<5, 0>>>>,
      <<<<1, 3>>, <<3, 3>>>>,
      <<<<3, 4>>, <<2, 3>>>>>>

(* 1.e4 f6 2.Qh5+ g6 3.Qe2 g5 4.Qh5# *)
CheckThenMateLine ==
    <<<<<<6, 4>>, <<4, 4>>>>,
      <<<<1, 5>>, <<2, 5>>>>,
      <<<<7, 3>>, <<3, 7>>>>,
      <<<<1, 6>>, <<2, 6>>>>,
      <<<<3, 7>>, <<6, 4>>>>,
      <<<<2, 6>>, <<3, 6>>>>,
      <<<<6, 4>>, <<3, 7>>>>>>

(* 1.f4 e5 2.fxe5 f6 3.exf6 Kf7 4.Nf3 Kxf6 5.g3 a6 6.Bh3 a5 7.Nh4 b6 8.O-O+ *)
CastleCheckLine ==
    <<<<<<6, 5>>, <<4, 5>>>>,
      <<<<1, 4>>, <<3, 4>>>>,
      <<<<4, 5>>, <<3, 4>>>>,
      <<<<1, 5>>, <<2, 5>>>>,
      <<<<3, 4>>, <<2, 5>>>>,
      <<<<0, 4>>, <<1, 5>>>>,
      <<<<7, 6>>, <<5, 5>>>>,
      <<<<1, 5>>, <<2, 5>>>>,
      <<<<6, 6>>, <<5, 6>>>>,
      <<<<1, 0>>, <<2, 0>>>>,
      <<<<7, 5>>, <<5, 7>>>>,
      <<<<2, 0>>, <<3, 0>>>>,
      <<<<5, 5>>, <<4, 7>>>>,
      <<<<1, 1>>, <<2, 1>>>>,
      <<<<7, 4>>, <<7, 6>>>>>>

Book == {FoolsMate,
         EnPassantLine,
         LateEnPassantLine,
         KingsideLine,
         QueensideLine,
         PawnGuardLine,
         StalemateLine,
         ForcedEnPassantLine,
         PinLine,
         KingWalkLine,
         PromotionLine,
         RookCheckLine,
         RookCheckKingE2Line,
         BlackPromotionLine,
         EnPassantCheckLine,
         CastleCheckLine,
         CheckThenMateLine}

Played == [i \in 1..Len(move_history) |-> <<move_history[i].start, move_history[i].end>>]

(* the games of Book that begin with the moves played so far *)
BookLines ==
    {l \in Book : /\ Len(l) >= Len(move_history)
                  /\ \A i \in 1..Len(move_history) : l[i] = Played[i]}

BookNext ==
    {line[Len(move_history) + 1] : line \in {l \in BookLines : Len(l) > Len(move_history)}}

(* the GameState object the variables hold *)
self ==
    [board |-> board, current_turn |-> current_turn, move_history |-> move_history,
     captured_pieces |-> captured_pieces, check_status |-> check_status,
     game_over |-> game_over, winner |-> winner, last_move |-> last_move]

GameInit ==
    /\ board = GameState.board
    /\ current_turn = GameState.current_turn
    /\ move_history = GameState.move_history
    /\ captured_pieces = GameState.captured_pieces
    /\ check_status = GameState.check_status
    /\ game_over = GameState.game_over
    /\ winner = GameState.winner
    /\ last_move = GameState.last_move
    /\ ret = "None"
    /\ free = 0

(* the reference held by an empty square: None *)
NullRef == 0

(* what move_piece gives back when it raises ValueError *)
Raised == -1

(* the last call was not a move_piece *)
NoMove == [start |-> <<>>, end |-> <<>>, returned |-> NullRef]

(* no Board is looked at as a grid of references *)
CopyIdle ==
    /\ objects = <<>>
    /\ grid = <<>>
    /\ new_board = <<>>
    /\ last_op = "None"
    /\ ops = 0
    /\ moved = NoMove

(* GameController(): nothing selected, the board shown from white's side *)
NoEvent == [kind |-> "None", pos |-> <<>>]

ControllerInit ==
    /\ selected_position = <<>>
    /\ legal_moves_cache = {}
    /\ board_orientation = 0
    /\ fullscreen = FALSE
    /\ running = TRUE
    /\ event = NoEvent

(* no position converted *)
TextIdle ==
    /\ given = <<>>
    /\ written = <<>>
    /\ parsed = <<>>

Init == GameInit /\ CopyIdle /\ TextIdle /\ ControllerInit

(* the caller receives the value returned; the GameState object is as the *)
(* call has left it                                                      *)
Return(r) ==
    /\ board' = r.gs.board
    /\ current_turn' = r.gs.current_turn
    /\ move_history' = r.gs.move_history
    /\ captured_pieces' = r.gs.captured_pieces
    /\ check_status' = r.gs.check_status
    /\ game_over' = r.gs.game_over
    /\ winner' = r.gs.winner
    /\ last_move' = r.gs.last_move
    /\ ret' = r.ret

MakeMoveBook ==
    /\ \E r \in {make_move(self, m[1], m[2]) : m \in BookNext} : Return(r)
    /\ free' = free
    /\ UNCHANGED copy_vars
    /\ UNCHANGED text_vars
    /\ UNCHANGED ctrl_vars

MakeMoveAny ==
    /\ free < MaxFree
    /\ BookLines # {}
    /\ \E r \in {make_move(self, start, end) : start \in Squares, end \in Squares} :
          Return(r)
    /\ free' = free + 1
    /\ UNCHANGED copy_vars
    /\ UNCHANGED text_vars
    /\ UNCHANGED ctrl_vars

Next == MakeMoveBook \/ MakeMoveAny

Spec == Init /\ [][Next]_vars

(***************************************************************************)
(* The rules of chess the claims are stated in, written from the rules and *)
(* not from the program: which squares a piece attacks.                    *)
(***************************************************************************)
Empty(b, sq) == b[sq].piece_type = "None"

(* sq + k * d *)
Along(sq, d, k) == <<sq[1] + k * d[1], sq[2] + k * d[2]>>

SlideAttacks(b, from, to, directions) ==
    \E d \in directions : \E k \in 1..7 :
        /\ to = Along(from, d, k)
        /\ \A j \in 1..(k - 1) : Empty(b, Along(from, d, j))

(* the piece standing on from attacks the square to, occupied or not *)
Attacks(b, from, to) ==
    LET kind == b[from].piece_type
        dr == to[1] - from[1]
        dc == to[2] - from[2]
    IN  CASE kind = "P" ->
               dr = (IF b[from].color = "white" THEN -1 ELSE 1) /\ abs(dc) = 1
          [] kind = "N" -> {abs(dr), abs(dc)} = {1, 2}
          [] kind = "K" -> abs(dr) <= 1 /\ abs(dc) <= 1 /\ from # to
          [] kind = "R" -> SlideAttacks(b, from, to, StraightDirections)
          [] kind = "B" -> SlideAttacks(b, from, to, DiagonalDirections)
          [] kind = "Q" ->
               SlideAttacks(b, from, to, StraightDirections \cup DiagonalDirections)
          [] OTHER -> FALSE

(* the other player *)
Other(color) == IF color = "white" THEN "black" ELSE "white"

Attacked(b, sq, by_color) ==
    \E from \in Squares : b[from].color = by_color /\ Attacks(b, from, sq)

KingSquares(b, color) ==
    {sq \in Squares : b[sq].piece_type = "K" /\ b[sq].color = color}

(* the board with the piece on start put on end, nothing else changed *)
Relocated(b, start, end) == [b EXCEPT ![end] = b[start], ![start] = None]

(* the moves of game played so far are the first n moves of line *)
PlayedIs(line, n) ==
    /\ Len(move_history) = n
    /\ \A i \in 1..n : Played[i] = line[i]

LastRecord == move_history[Len(move_history)]

(***************************************************************************)
(* C1: make_move is all-or-nothing: a call that returns false leaves the   *)
(* board (kind, colour, has_moved on every square), current_turn,          *)
(* move_history, captured_pieces, check_status, game_over, winner and      *)
(* last_move as they were.                                                 *)
(***************************************************************************)
AllOrNothing == [][ret' = "False" => UNCHANGED gs_vars]_vars

(* 2...f6 has been refused in the game 1.e4 e5 2.Qh5 because it exposes e8 *)
RejectedPinnedPawn ==
    /\ PlayedIs(PinLine, 3)
    /\ free = 0
    /\ ret = "False"
    /\ is_legal_move_exit(board, <<1, 5>>, <<2, 5>>, "black", last_move) = 81

(***************************************************************************)
(* C2: once game_over is true, every make_move(start, end) returns false   *)
(* and changes nothing, whatever the kind of move.                         *)
(***************************************************************************)
GameOverRejectsEveryMove ==
    game_over =>
        \A start \in Squares, end \in Squares :
            make_move(self, start, end) = [ret |-> "False", gs |-> self]

(***************************************************************************)
(* C3: king safety of get_legal_moves: for every occupied square p, every  *)
(* destination d that get_legal_moves(p) returns is such that putting the  *)
(* piece of p on d leaves no king of its colour attacked.                  *)
(***************************************************************************)
LegalMovesKeepKingSafe ==
    \A p \in Squares :
        ~Empty(board, p) =>
            \A d \in get_legal_moves(self, p) :
                \A k \in KingSquares(Relocated(board, p, d), board[p].color) :
                    ~Attacked(Relocated(board, p, d), k, Other(board[p].color))

(* some piece has moves, and get_legal_moves has removed one of its candidates *)
CandidateFilteredOut ==
    \E p \in Squares :
        /\ ~Empty(board, p)
        /\ get_legal_moves(self, p) # {}
        /\ get_legal_moves(self, p) # get_possible_moves(board, board[p], TRUE)

(***************************************************************************)
(* C4: make_move accepts an en passant capture (a pawn of the side to move *)
(* going diagonally forward to an empty square) only on the ply right      *)
(* after the opposing pawn's two-square advance to the square beside it:   *)
(* the last record is that advance.  Once each player has made one other   *)
(* move, the same capture from the same pawn placement is refused.         *)
(***************************************************************************)
EnPassantOnlyOnNextPly ==
    \A start \in Squares :
        (board[start].piece_type = "P" /\ board[start].color = current_turn) =>
            \A end \in Squares :
                ( /\ end[1] = start[1] + (IF current_turn = "white" THEN -1 ELSE 1)
                  /\ abs(end[2] - start[2]) = 1
                  /\ Empty(board, end)
                  /\ make_move(self, start, end).ret = "True" ) =>
                    /\ move_history # <<>>
                    /\ LastRecord.piece_type = "P"
                    /\ LastRecord.player = Other(current_turn)
                    /\ abs(LastRecord.end[1] - LastRecord.start[1]) = 2
                    /\ LastRecord.end = <<start[1], end[2]>>

(* 1.e4 a6 2.e5 d5 3.a3 a5 has been played and 4.exd6 has been refused, the *)
(* pawns standing on e5 and d5 as they did after 2...d5                     *)
LateEnPassantRejected ==
    /\ PlayedIs(LateEnPassantLine, 6)
    /\ free = 0
    /\ ret = "False"
    /\ board[<<3, 4>>].piece_type = "P" /\ board[<<3, 4>>].color = "white"
    /\ board[<<3, 3>>].piece_type = "P" /\ board[<<3, 3>>].color = "black"
    /\ Empty(board, <<2, 3>>)
    /\ move_history[4].start = <<1, 3>> /\ move_history[4].end = <<3, 3>>

SideToMoveAttacked ==
    \E k \in KingSquares(board, current_turn) :
        Attacked(board, k, Other(current_turn))

(* no piece of the side to move has a candidate that get_legal_moves keeps *)
SideToMoveHasNoLegalMove ==
    ~\E p \in Squares :
        /\ board[p].color = current_turn
        /\ \E d \in get_possible_moves(board, board[p], TRUE) :
              is_legal_move(board, p, d, current_turn, last_move)

MoveRecorded == Len(move_history') = Len(move_history) + 1

EndsInHash(notation) == notation # <<>> /\ notation[Len(notation)] = "#"

(***************************************************************************)
(* C5: checkmate detection: when a make_move that records a move leaves    *)
(* the opponent's king attacked and the opponent without a move surviving  *)
(* get_legal_moves, the call returns true, game_over is true, winner is    *)
(* the mover's colour, and the appended record has is_checkmate true and a *)
(* notation ending in '#'.                                                 *)
(***************************************************************************)
CheckmateDetected ==
    [][ (MoveRecorded /\ SideToMoveAttacked' /\ SideToMoveHasNoLegalMove') =>
            /\ ret' = "True"
            /\ game_over'
            /\ winner' = current_turn
            /\ LastRecord'.player = current_turn
            /\ LastRecord'.is_checkmate
            /\ EndsInHash(LastRecord'.algebraic_notation) ]_vars

(* 1.f3 e5 2.g4 Qh4# *)
FoolsMatePlayed ==
    /\ PlayedIs(FoolsMate, 4)
    /\ ret = "True"
    /\ game_over
    /\ winner = "black"
    /\ SideToMoveAttacked
    /\ SideToMoveHasNoLegalMove
    /\ LastRecord.algebraic_notation = <<"Q", "h", "4", "#">>

(***************************************************************************)
(* C6: stalemate detection: when a make_move that records a move leaves    *)
(* the new side to move not in check and without a legal move for any of   *)
(* its pieces, game_over is true, winner is None, and the appended record  *)
(* has is_checkmate false and a notation not ending in '#'.                *)
(***************************************************************************)
StalemateDetected ==
    [][ (MoveRecorded /\ ~SideToMoveAttacked' /\ SideToMoveHasNoLegalMove') =>
            /\ ret' = "True"
            /\ game_over'
            /\ winner' = "None"
            /\ ~LastRecord'.is_checkmate
            /\ ~EndsInHash(LastRecord'.algebraic_notation) ]_vars

(* the ten-move stalemate, ended by 10.Qe6 *)
StalematePlayed ==
    /\ PlayedIs(StalemateLine, 19)
    /\ ret = "True"
    /\ game_over
    /\ winner = "None"
    /\ ~SideToMoveAttacked
    /\ SideToMoveHasNoLegalMove
    /\ LastRecord.algebraic_notation = <<"Q", "e", "6">>

(* the board once the piece on start has gone to end: a pawn going         *)
(* diagonally to an empty square takes the pawn beside it off the board    *)
After(b, start, end) ==
    IF b[start].piece_type = "P" /\ start[2] # end[2] /\ Empty(b, end)
    THEN [Relocated(b, start, end) EXCEPT ![<<start[1], end[2]>>] = None]
    ELSE Relocated(b, start, end)

(* no rule of movement takes the piece on from to the square to *)
Unreachable(b, from, to) ==
    LET kind == b[from].piece_type
        dr == to[1] - from[1]
        dc == to[2] - from[2]
        ahead == IF b[from].color = "white" THEN -1 ELSE 1
    IN  CASE kind = "P" ->
               ~(\/ dc = 0 /\ dr \in {ahead, 2 * ahead}
                 \/ abs(dc) = 1 /\ dr = ahead)
          [] kind = "K" -> ~(Attacks(b, from, to) \/ (dr = 0 /\ abs(dc) = 2))
          [] OTHER -> ~Attacks(b, from, to)

(* the six kinds of illegal input: an empty start square, an opponent's    *)
(* piece, start = end, an own piece on the destination, a destination the  *)
(* piece cannot go to, a move that leaves the mover's king attacked        *)
IllegalInput(start, end) ==
    \/ Empty(board, start)
    \/ board[start].color # current_turn
    \/ start = end
    \/ board[end].color = board[start].color
    \/ Unreachable(board, start, end)
    \/ \E k \in KingSquares(After(board, start, end), current_turn) :
          Attacked(After(board, start, end), k, Other(current_turn))

(***************************************************************************)
(* C7: illegal input is a boolean outcome, never an exception: no call of  *)
(* make_move has raised, is_legal_move raises for no two squares of the    *)
(* board (no king's candidate moves hold an off-board position), and an    *)
(* empty start square, an opponent's piece, start = end, an own piece on   *)
(* the destination, a non-candidate destination and a king-exposing move   *)
(* all make is_legal_move and make_move return false.                      *)
(***************************************************************************)
IllegalInputIsFalse ==
    /\ ret # "ValueError"
    /\ \A p \in Squares :
          board[p].piece_type = "K" =>
              InvalidPosition \notin get_possible_moves(board, board[p], TRUE)
    /\ \A start \in Squares, end \in Squares :
          LET exit == is_legal_move_exit(board, start, end, current_turn, last_move)
          IN  /\ exit # 63
              /\ IllegalInput(start, end) =>
                    /\ exit \notin {73, 83}
                    /\ make_move(self, start, end).ret = "False"

(* the kings have walked to g1 and g8 and back; 8.O-O has been refused *)
RejectedCastleAfterKingWalk ==
    /\ PlayedIs(KingWalkLine, 14)
    /\ free = 0
    /\ ret = "False"
    /\ board[<<7, 4>>].piece_type = "K" /\ board[<<7, 4>>].has_moved
    /\ board[<<7, 7>>].piece_type = "R" /\ ~board[<<7, 7>>].has_moved
    /\ Empty(board, <<7, 5>>) /\ Empty(board, <<7, 6>>)

(***************************************************************************)
(* C8: castling preconditions: make_move accepts a two-file king move only *)
(* if the king and the rook on that side's corner are of the same colour   *)
(* and have never moved, every square strictly between them is empty, and  *)
(* none of the king's square, the square it passes over and its final      *)
(* square is attacked by an opposing piece, a pawn attacking the two       *)
(* squares diagonally ahead of it, occupied or not, and not the square     *)
(* straight ahead.                                                         *)
(***************************************************************************)
CastlingPreconditions ==
    \A start \in KingSquares(board, current_turn) :
        \A end \in Squares :
            ( /\ end[1] = start[1]
              /\ abs(end[2] - start[2]) = 2
              /\ make_move(self, start, end).ret = "True" ) =>
                LET corner == <<start[1], IF end[2] > start[2] THEN 7 ELSE 0>>
                    passed == <<start[1], (start[2] + end[2]) \div 2>>
                    lo == IF corner[2] < start[2] THEN corner[2] ELSE start[2]
                    hi == IF corner[2] < start[2] THEN start[2] ELSE corner[2]
                IN  /\ board[corner].piece_type = "R"
                    /\ board[corner].color = current_turn
                    /\ ~board[start].has_moved
                    /\ ~board[corner].has_moved
                    /\ \A col \in (lo + 1)..(hi - 1) : Empty(board, <<start[1], col>>)
                    /\ \A sq \in {start, passed, end} :
                          ~Attacked(board, sq, Other(current_turn))

(***************************************************************************)
(* C9: turn alternation: current_turn is white exactly when move_history   *)
(* holds an even number of records, and the players of consecutive records *)
(* alternate white, black, white, ...                                      *)
(***************************************************************************)
TurnAlternation ==
    /\ (current_turn = "white") <=> (Len(move_history) % 2 = 0)
    /\ current_turn \in {"white", "black"}
    /\ \A i \in 1..Len(move_history) :
          move_history[i].player = (IF i % 2 = 1 THEN "white" ELSE "black")

(* 1.e4 has been played from the initial position *)
AfterE4BlackToMove ==
    /\ Played = <<<<<<6, 4>>, <<4, 4>>>>>>
    /\ ret = "True"
    /\ current_turn = "black"
    /\ LastRecord.algebraic_notation = <<"e", "4">>

(***************************************************************************)
(* C10: for every piece on the board, get_possible_moves, with or without  *)
(* the king's castling destinations, returns no square holding a piece of  *)
(* the same colour and no square outside rows 0-7 and columns 0-7.         *)
(***************************************************************************)
PossibleMovesOnBoardNotOwn ==
    \A p \in Squares :
        ~Empty(board, p) =>
            \A include_castling \in BOOLEAN :
                \A d \in get_possible_moves(board, board[p], include_castling) :
                    /\ d[1] \in 0..7
                    /\ d[2] \in 0..7
                    /\ board[d].color # board[p].color

(* a king has a castling destination among its candidate moves, and every *)
(* kind of piece is on the board                                          *)
CastlingAmongCandidates ==
    /\ \E p \in Squares :
          /\ board[p].piece_type = "K"
          /\ get_possible_moves(board, board[p], TRUE)
                # get_possible_moves(board, board[p], FALSE)
    /\ \A kind \in {"P", "R", "N", "B", "Q", "K"} :
          \E p \in Squares : board[p].piece_type = kind

(***************************************************************************)
(* Boards as objects.  A Board's grid holds references to Piece objects;   *)
(* objects is the heap, the sequence of all Piece objects made so far, and *)
(* a reference is an index into it.  grid is the grid of the first Board   *)
(* and new_board the grid of the Board that copy() returns (<<>> before).  *)
(***************************************************************************)
(* number of set_piece and move_piece calls on the two boards *)
MaxOps == 2

(* the calls are made on the files a .. a + MaxOpCol of ranks 1 to 3 *)
MaxOpCol == 1

OpSquares == {sq \in Squares : sq[1] >= 5 /\ sq[2] <= MaxOpCol}

(* the squares before sq, and sq, that hold a piece, in the order of the scans *)
OccupiedUpTo(g, sq) ==
    {t \in Squares : g[t] # NullRef /\ (Before(t, sq) \/ t = sq)}

(* Board() followed by setup_initial_position(): one new Piece object for *)
(* every piece of the initial position                                    *)
Board_setup ==
    LET b == setup_initial_position
        occupied == {sq \in Squares : b[sq] # None}
        rank(sq) == Cardinality({t \in occupied : Before(t, sq) \/ t = sq})
    IN  [objects |-> [i \in 1..Cardinality(occupied) |->
                        b[CHOOSE sq \in occupied : rank(sq) = i]],
         grid |-> [sq \in Squares |-> IF b[sq] = None THEN NullRef ELSE rank(sq)]]

(* piece.copy(): a new object of the same class and colour at the same *)
(* position, with the has_moved of the piece                          *)
Piece_copy(h, ref) ==
    [Piece(h[ref].piece_type, h[ref].color, h[ref].position)
        EXCEPT !.has_moved = h[ref].has_moved]

(* mutant: the new grid refers to the Piece objects of the board copied *)
Board_copy_shallow(h, g) == [objects |-> h, grid |-> g]

(* board.copy(): the heap with the new Piece objects, and the new grid *)
Board_copy(h, g) ==
    LET occupied == {sq \in Squares : g[sq] # NullRef}
        n == Cardinality(occupied)
    IN  [objects |-> h \o [i \in 1..n |->
                        Piece_copy(h, g[CHOOSE sq \in occupied :
                                          Cardinality(OccupiedUpTo(g, sq)) = i])],
         grid |-> [sq \in Squares |->
                     IF g[sq] = NullRef THEN NullRef
                     ELSE Len(h) + Cardinality(OccupiedUpTo(g, sq))]]

(* board.set_piece(position, piece) on the board of grid g *)
Board_set_piece(h, g, position, ref) ==
    [objects |-> IF ref # NullRef THEN [h EXCEPT ![ref].position = position] ELSE h,
     grid |-> [g EXCEPT ![position] = ref]]

(* the piece is put on end and start is left as it is *)
Board_move_piece_start_kept(h, g, start, end) ==
    LET ref == g[start]
        placed == Board_set_piece(h, g, end, ref)
    IN  IF ref = NullRef
        THEN [objects |-> h, grid |-> g, returned |-> Raised]
        ELSE [objects |-> [placed.objects EXCEPT ![ref].has_moved = TRUE],
              grid |-> placed.grid,
              returned |-> g[end]]

(* board.move_piece(start, end) on the board of grid g: the heap and the *)
(* grid it leaves, and the reference it returns (captured_piece)         *)
Board_move_piece(h, g, start, end) ==
    LET ref == g[start]
        placed == Board_set_piece(h, g, end, ref)
        cleared == Board_set_piece(placed.objects, placed.grid, start, NullRef)
    IN  IF ref = NullRef
        THEN [objects |-> h, grid |-> g, returned |-> Raised]
        ELSE [objects |-> [cleared.objects EXCEPT ![ref].has_moved = TRUE],
              grid |-> cleared.grid,
              returned |-> g[end]]

InitCopy ==
    /\ GameInit
    /\ TextIdle
    /\ ControllerInit
    /\ objects = Board_setup.objects
    /\ grid = Board_setup.grid
    /\ new_board = <<>>
    /\ last_op = "None"
    /\ ops = 0
    /\ moved = NoMove

(* new_board = board.copy() *)
CopyBoard ==
    /\ new_board = <<>>
    /\ \E r \in {Board_copy(objects, grid)} :
          /\ objects' = r.objects
          /\ new_board' = r.grid
    /\ last_op' = "copy"
    /\ moved' = NoMove
    /\ UNCHANGED <<grid, ops>>
    /\ UNCHANGED game_vars
    /\ UNCHANGED text_vars
    /\ UNCHANGED ctrl_vars

(* board.set_piece(position, None), or board.set_piece(position, Queen(color, position)) *)
SetPieceOnBoard ==
    /\ ops < MaxOps
    /\ \E position \in OpSquares, color \in {"None", "white", "black"} :
          \E r \in {IF color = "None"
                    THEN Board_set_piece(objects, grid, position, NullRef)
                    ELSE Board_set_piece(Append(objects, Piece("Q", color, position)),
                                         grid, position, Len(objects) + 1)} :
              /\ objects' = r.objects
              /\ grid' = r.grid
    /\ last_op' = "board"
    /\ moved' = NoMove
    /\ ops' = ops + 1
    /\ UNCHANGED new_board
    /\ UNCHANGED game_vars
    /\ UNCHANGED text_vars
    /\ UNCHANGED ctrl_vars

(* new_board.set_piece(position, None), or with a new Queen *)
SetPieceOnNewBoard ==
    /\ ops < MaxOps
    /\ new_board # <<>>
    /\ \E position \in OpSquares, color \in {"None", "white", "black"} :
          \E r \in {IF color = "None"
                    THEN Board_set_piece(objects, new_board, position, NullRef)
                    ELSE Board_set_piece(Append(objects, Piece("Q", color, position)),
                                         new_board, position, Len(objects) + 1)} :
              /\ objects' = r.objects
              /\ new_board' = r.grid
    /\ last_op' = "new_board"
    /\ moved' = NoMove
    /\ ops' = ops + 1
    /\ UNCHANGED grid
    /\ UNCHANGED game_vars
    /\ UNCHANGED text_vars
    /\ UNCHANGED ctrl_vars

(* board.move_piece(start, end) *)
MovePieceOnBoard ==
    /\ ops < MaxOps
    /\ \E start \in OpSquares, end \in OpSquares :
          \E r \in {Board_move_piece(objects, grid, start, end)} :
              /\ objects' = r.objects
              /\ grid' = r.grid
              /\ moved' = [start |-> start, end |-> end, returned |-> r.returned]
    /\ last_op' = "board"
    /\ ops' = ops + 1
    /\ UNCHANGED new_board
    /\ UNCHANGED game_vars
    /\ UNCHANGED text_vars
    /\ UNCHANGED ctrl_vars

(* new_board.move_piece(start, end) *)
MovePieceOnNewBoard ==
    /\ ops < MaxOps
    /\ new_board # <<>>
    /\ \E start \in OpSquares, end \in OpSquares :
          \E r \in {Board_move_piece(objects, new_board, start, end)} :
              /\ objects' = r.objects
              /\ new_board' = r.grid
              /\ moved' = [start |-> start, end |-> end, returned |-> r.returned]
    /\ last_op' = "new_board"
    /\ ops' = ops + 1
    /\ UNCHANGED grid
    /\ UNCHANGED game_vars
    /\ UNCHANGED text_vars
    /\ UNCHANGED ctrl_vars

(* The statements of the legality queries that change an object, on the *)
(* heap: what the queries answer is would_leave_in_check and            *)
(* would_leave_in_check_en_passant above, which read the board only.    *)
(* c is what board.copy() gave: the heap with the new objects and the   *)
(* grid of board_copy.                                                  *)

(* the move is made on board and not on board_copy *)
Validator_would_leave_in_check_in_place(c, g, start, end) ==
    LET m == Board_move_piece(c.objects, g, start, end)
    IN  [objects |-> m.objects,
         grid |-> m.grid]

(* would_leave_in_check(board, start, end, color) on the board of grid g, *)
(* after its board.copy(): the heap it leaves and the grid of board when  *)
(* it returns                                                             *)
Validator_would_leave_in_check(c, g, start, end) ==
    LET m == Board_move_piece(c.objects, c.grid, start, end)
    IN  [objects |-> m.objects,
         grid |-> g]

(* the captured pawn is taken off board and not off board_copy *)
Validator_would_leave_in_check_en_passant_in_place(c, g, start, end) ==
    LET captured_pawn_pos == Position(start[1], end[2])
        s == Board_set_piece(c.objects, g, captured_pawn_pos, NullRef)
        m == Board_move_piece(s.objects, c.grid, start, end)
    IN  [objects |-> m.objects,
         grid |-> s.grid]

(* would_leave_in_check_en_passant(board, start, end, color), after its *)
(* board.copy()                                                         *)
Validator_would_leave_in_check_en_passant(c, g, start, end) ==
    LET captured_pawn_pos == Position(start[1], end[2])
        s == Board_set_piece(c.objects, c.grid, captured_pawn_pos, NullRef)
        m == Board_move_piece(s.objects, s.grid, start, end)
    IN  [objects |-> m.objects,
         grid |-> g]

(* the objects still referred to when a query has returned: board_copy is a *)
(* local of the query, and the Piece objects made for it are dropped        *)
Collected(h, r) == SubSeq(r.objects, 1, Len(h))

(* validator.would_leave_in_check(board, start, end, color), as is_legal_move *)
(* calls it for the piece on start                                           *)
WouldLeaveInCheck ==
    /\ ops < MaxOps
    /\ \E c \in {Board_copy(objects, grid)} :
        \E start \in OpSquares, end \in OpSquares :
          /\ grid[start] # NullRef
          /\ \E r \in {Validator_would_leave_in_check(c, grid, start, end)} :
                /\ objects' = Collected(objects, r)
                /\ grid' = r.grid
    /\ last_op' = "query"
    /\ moved' = NoMove
    /\ ops' = ops + 1
    /\ UNCHANGED new_board
    /\ UNCHANGED game_vars
    /\ UNCHANGED text_vars
    /\ UNCHANGED ctrl_vars

(* validator.would_leave_in_check_en_passant(board, start, end, color) *)
WouldLeaveInCheckEnPassant ==
    /\ ops < MaxOps
    /\ \E c \in {Board_copy(objects, grid)} :
        \E start \in OpSquares, end \in OpSquares :
          /\ grid[start] # NullRef
          /\ \E r \in {Validator_would_leave_in_check_en_passant(c, grid, start, end)} :
                /\ objects' = Collected(objects, r)
                /\ grid' = r.grid
    /\ last_op' = "query"
    /\ moved' = NoMove
    /\ ops' = ops + 1
    /\ UNCHANGED new_board
    /\ UNCHANGED game_vars
    /\ UNCHANGED text_vars
    /\ UNCHANGED ctrl_vars

NextCopy ==
    \/ CopyBoard
    \/ SetPieceOnBoard
    \/ SetPieceOnNewBoard
    \/ MovePieceOnBoard
    \/ MovePieceOnNewBoard
    \/ WouldLeaveInCheck
    \/ WouldLeaveInCheckEnPassant

SpecCopy == InitCopy /\ [][NextCopy]_vars

(* what a board shows: the kind, colour and has_moved of the piece on *)
(* every square                                                       *)
Shown(h, g) ==
    [sq \in Squares |->
        IF g[sq] = 0 THEN <<"None", "None", FALSE>>
        ELSE <<h[g[sq]].piece_type, h[g[sq]].color, h[g[sq]].has_moved>>]

(***************************************************************************)
(* C11: Board.copy() is a fully independent clone: the copy shows the same *)
(* kind, colour and has_moved on every square as the board copied, and a   *)
(* later set_piece or move_piece on the copy (with the has_moved that      *)
(* move_piece sets) leaves what the original shows unchanged, and a call   *)
(* on the original leaves what the copy shows unchanged.                   *)
(***************************************************************************)
CopyIsIndependent ==
    [][ /\ last_op' = "copy" =>
              /\ Shown(objects', new_board') = Shown(objects, grid)
              /\ Shown(objects', grid') = Shown(objects, grid)
        /\ last_op' = "new_board" =>
              Shown(objects', grid') = Shown(objects, grid)
        /\ (last_op' = "board" /\ new_board # <<>>) =>
              Shown(objects', new_board') = Shown(objects, new_board) ]_vars

(* a piece has been moved on the copy and stands there with has_moved set, *)
(* while the original still shows the initial position, and a piece has    *)
(* been moved on the original since the copy was made                      *)
CopyMovedOriginalMoved ==
    /\ new_board # <<>>
    /\ ops = 2
    /\ \E sq \in OpSquares :
          /\ new_board[sq] # 0
          /\ objects[new_board[sq]].has_moved
          /\ objects[new_board[sq]].piece_type # "Q"
    /\ \E sq \in OpSquares :
          /\ grid[sq] # 0
          /\ objects[grid[sq]].has_moved
          /\ objects[grid[sq]].piece_type # "Q"
    /\ Shown(objects, grid) # Shown(objects, new_board)

(* the white king stands on e1, a black rook on e8, and e2 to e7 are empty *)
KingE1RookE8 ==
    /\ board[<<7, 4>>].piece_type = "K" /\ board[<<7, 4>>].color = "white"
    /\ board[<<0, 4>>].piece_type = "R" /\ board[<<0, 4>>].color = "black"
    /\ \A row \in 1..6 : Empty(board, <<row, 4>>)

(***************************************************************************)
(* C12, as stated: with the white king on e1, a black rook on e8 and no    *)
(* piece between them on the e-file, is_under_attack(board, e1, 'black')   *)
(* returns true.                                                           *)
(***************************************************************************)
KingE1AttackedDefendingBlack ==
    KingE1RookE8 => is_under_attack(board, <<7, 4>>, "black")

(***************************************************************************)
(* C12, amended: the third argument of is_under_attack is the colour that  *)
(* defends the square: with the white king on e1, a black rook on e8 and   *)
(* no piece between them on the e-file, is_under_attack(board, e1,         *)
(* 'white') returns true.                                                  *)
(***************************************************************************)
KingE1AttackedDefendingWhite ==
    KingE1RookE8 => is_under_attack(board, <<7, 4>>, "white")

(* 1.e4 d5 2.exd5 e6 3.dxe6 Nf6 4.exf7+ Kxf7 5.a3 Bd6 6.a4 Re8+ is on the board *)
RookCheckPlayed ==
    /\ PlayedIs(RookCheckLine, 12)
    /\ ret = "True"
    /\ KingE1RookE8

(***************************************************************************)
(* C13: when a king is attacked along an open file or rank by an enemy     *)
(* rook or queen, get_legal_moves for that king contains no square of that *)
(* file or rank other than the attacker's own square; the square directly  *)
(* behind the king is not offered either.                                  *)
(***************************************************************************)
KingOnOpenLine(b, k, a) ==
    /\ b[k].piece_type = "K"
    /\ b[a].piece_type \in {"R", "Q"}
    /\ b[a].color = Other(b[k].color)
    /\ \E d \in {<<0, 1>>, <<0, -1>>, <<1, 0>>, <<-1, 0>>} : \E n \in 1..7 :
          /\ k = Along(a, d, n)
          /\ \A j \in 1..(n - 1) : Empty(b, Along(a, d, j))

OnLineOf(k, a, sq) ==
    IF k[1] = a[1] THEN sq[1] = k[1] ELSE sq[2] = k[2]

KingLeavesAttackLine ==
    \A k \in Squares : \A a \in Squares :
        KingOnOpenLine(board, k, a) =>
            \A d \in get_legal_moves(self, k) : OnLineOf(k, a, d) => d = a

(* king e2 checked from e8: e1 and e3 are candidate moves and are not legal *)
KingE2CheckedFromE8 ==
    /\ PlayedIs(RookCheckKingE2Line, 12)
    /\ KingOnOpenLine(board, <<6, 4>>, <<0, 4>>)
    /\ {<<7, 4>>, <<5, 4>>} \subseteq get_possible_moves(board, board[<<6, 4>>], TRUE)
    /\ get_legal_moves(self, <<6, 4>>) # {}
    /\ get_legal_moves(self, <<6, 4>>) \cap {<<7, 4>>, <<5, 4>>} = {}

(***************************************************************************)
(* C14: a successful make_move that brings a pawn to row 0 (white) or row  *)
(* 7 (black) leaves on the destination a queen of the mover's colour with  *)
(* has_moved true, and no reachable state has a pawn on row 0 or row 7.    *)
(***************************************************************************)
NoPawnOnLastRows ==
    \A sq \in Squares : sq[1] \in {0, 7} => board[sq].piece_type # "P"

PawnReachesLastRow(s, e) ==
    /\ board[s].piece_type = "P"
    /\ board[s].color = current_turn
    /\ e[1] = (IF board[s].color = "white" THEN 0 ELSE 7)
    /\ abs(e[1] - s[1]) = 1
    /\ abs(e[2] - s[2]) <= 1
    /\ Empty(board', s)
    /\ board'[e] # board[e]

PromotionStep ==
    (ret' = "True" /\ MoveRecorded) =>
        \A s \in Squares : \A e \in Squares :
            PawnReachesLastRow(s, e) =>
                /\ board'[e].piece_type = "Q"
                /\ board'[e].color = board[s].color
                /\ board'[e].has_moved

PawnPromotesToQueen == []NoPawnOnLastRows /\ [][PromotionStep]_vars

(* black has promoted on h1 by capture, white has just promoted on a8 *)
BothSidesPromoted ==
    /\ PlayedIs(BlackPromotionLine, 11)
    /\ ret = "True"
    /\ LastRecord.piece_type = "P" /\ LastRecord.end = <<0, 0>>
    /\ board[<<0, 0>>].piece_type = "Q" /\ board[<<0, 0>>].color = "white"
    /\ board[<<0, 0>>].has_moved
    /\ board[<<7, 7>>].piece_type = "Q" /\ board[<<7, 7>>].color = "black"
    /\ board[<<7, 7>>].has_moved

(***************************************************************************)
(* C15: disambiguation in recorded notation: when make_move records a      *)
(* non-pawn, non-castling move and at least one other piece of the same    *)
(* colour and kind could also have moved to the destination, the notation  *)
(* carries right after the piece letter the origin file letter if no such  *)
(* other piece stands on the mover's file, else the origin rank digit if   *)
(* none stands on the mover's rank, else the full origin square; when no   *)
(* such other piece exists the token is empty.                             *)
(***************************************************************************)
(* the other pieces of the kind and colour of the piece on start that, on  *)
(* the board b the move is made from, have end among their candidates      *)
CouldAlsoMove(b, start, end) ==
    {pos \in Squares :
        /\ pos # start
        /\ b[pos].piece_type = b[start].piece_type
        /\ b[pos].color = b[start].color
        /\ end \in get_possible_moves(b, b[pos], TRUE)}

ExpectedToken(b, start, end) ==
    LET others == CouldAlsoMove(b, start, end)
    IN  IF others = {} THEN <<>>
        ELSE IF \A pos \in others : pos[2] # start[2] THEN <<to_algebraic(start)[1]>>
        ELSE IF \A pos \in others : pos[1] # start[1] THEN <<to_algebraic(start)[2]>>
        ELSE to_algebraic(start)

DisambiguationStep ==
    (ret' = "True" /\ MoveRecorded) =>
        LET r == LastRecord'
        IN  (r.piece_type # "P" /\ ~r.is_castling) =>
                \E cap \in {<<>>, <<"x">>} : \E suffix \in {<<>>, <<"+">>, <<"#">>} :
                    r.algebraic_notation =
                        <<r.piece_type>> \o ExpectedToken(board, r.start, r.end)
                            \o cap \o to_algebraic(r.end) \o suffix

DisambiguationRecorded == [][DisambiguationStep]_vars

(***************************************************************************)
(* C16: every recorded notation ends with '#' exactly when the record's    *)
(* is_checkmate is true, ends with '+' exactly when is_check is true and   *)
(* is_checkmate is false, and otherwise ends with neither; the two         *)
(* suffixes never both appear, and is_checkmate implies is_check.          *)
(***************************************************************************)
EndsIn(notation, char) == notation # <<>> /\ notation[Len(notation)] = char

Occurrences(notation, char) == {k \in 1..Len(notation) : notation[k] = char}

SuffixOf(r) ==
    /\ EndsIn(r.algebraic_notation, "#") <=> r.is_checkmate
    /\ EndsIn(r.algebraic_notation, "+") <=> (r.is_check /\ ~r.is_checkmate)
    /\ Occurrences(r.algebraic_notation, "#") = {} \/ Occurrences(r.algebraic_notation, "+") = {}
    /\ r.is_checkmate => r.is_check

CheckMateSuffix == \A i \in 1..Len(move_history) : SuffixOf(move_history[i])

(* a game with a plain move, a check and then a checkmate on record *)
PlainCheckAndMateRecorded ==
    /\ PlayedIs(CheckThenMateLine, 7)
    /\ ret = "True"
    /\ \E i \in 1..Len(move_history) :
          ~move_history[i].is_check /\ ~EndsIn(move_history[i].algebraic_notation, "+")
    /\ \E i \in 1..Len(move_history) :
          /\ move_history[i].is_check /\ ~move_history[i].is_checkmate
          /\ EndsIn(move_history[i].algebraic_notation, "+")
    /\ LastRecord.is_checkmate /\ LastRecord.is_check
    /\ EndsIn(LastRecord.algebraic_notation, "#")

(***************************************************************************)
(* C17: a pawn move without capture is recorded as just the destination    *)
(* square (e2-e4 from the initial position is exactly "e4"); a pawn        *)
(* capture is recorded as the origin file letter, then 'x', then the       *)
(* destination square; an en passant capture additionally carries the en   *)
(* passant marker after the destination and before any '+' or '#'.         *)
(***************************************************************************)
FileLetter(sq) == <<"a", "b", "c", "d", "e", "f", "g", "h">>[sq[2] + 1]

RankDigit(sq) == <<"8", "7", "6", "5", "4", "3", "2", "1">>[sq[1] + 1]

SquareName(sq) == <<FileLetter(sq), RankDigit(sq)>>

EnPassantMarker == <<" ", "e", ".", "p", ".">>

CheckSuffix(r) == IF r.is_checkmate THEN <<"#">> ELSE IF r.is_check THEN <<"+">> ELSE <<>>

(* the pawn on start moved to end: by a capture when it changed column,    *)
(* en passant when the square it arrived on was empty                      *)
PawnNotationStep ==
    (ret' = "True" /\ MoveRecorded) =>
        LET r == LastRecord'
            capture == r.start[2] # r.end[2]
            en_passant == capture /\ Empty(board, r.end)
        IN  board[r.start].piece_type = "P" =>
                r.algebraic_notation =
                    (IF capture THEN <<FileLetter(r.start), "x">> ELSE <<>>)
                        \o SquareName(r.end)
                        \o (IF en_passant THEN EnPassantMarker ELSE <<>>)
                        \o CheckSuffix(r)

PawnNotation ==
    /\ [](Len(move_history) >= 1 /\ Played[1] = <<<<6, 4>>, <<4, 4>>>>
            => move_history[1].algebraic_notation = <<"e", "4">>)
    /\ [][PawnNotationStep]_vars

(* 1.e4 e6 2.e5 Ke7 3.a3 d5 4.exd6 e.p.+ *)
EnPassantWithCheckRecorded ==
    /\ PlayedIs(EnPassantCheckLine, 7)
    /\ ret = "True"
    /\ move_history[1].algebraic_notation = <<"e", "4">>
    /\ LastRecord.is_en_passant /\ LastRecord.is_check
    /\ LastRecord.algebraic_notation =
            <<"e", "x", "d", "6", " ", "e", ".", "p", ".", "+">>

(***************************************************************************)
(* C18: a castling move is recorded as exactly 'O-O' when the king's       *)
(* column increases and 'O-O-O' when it decreases, followed only by '+' or *)
(* '#' when applicable: no piece letter, capture mark or destination.      *)
(***************************************************************************)
CastlingNotationStep ==
    (ret' = "True" /\ MoveRecorded) =>
        LET r == LastRecord'
        IN  (board[r.start].piece_type = "K" /\ abs(r.end[2] - r.start[2]) = 2) =>
                r.algebraic_notation =
                    (IF r.end[2] > r.start[2] THEN <<"O", "-", "O">>
                     ELSE <<"O", "-", "O", "-", "O">>) \o CheckSuffix(r)

CastlingNotation == [][CastlingNotationStep]_vars

(* 8.O-O+: the rook arriving on f1 checks the king on f6 *)
CastledWithCheckRecorded ==
    /\ PlayedIs(CastleCheckLine, 15)
    /\ ret = "True"
    /\ LastRecord.is_castling /\ LastRecord.is_check /\ ~LastRecord.is_checkmate
    /\ LastRecord.start = <<7, 4>> /\ LastRecord.end = <<7, 6>>
    /\ LastRecord.algebraic_notation = <<"O", "-", "O", "+">>

(***************************************************************************)
(* C19: the move_number of a record appended when k records exist is       *)
(* floor(k / 2) + 1: the two plies of a full move share a number.          *)
(***************************************************************************)
MoveNumbering ==
    \A i \in 1..Len(move_history) : move_history[i].move_number = ((i - 1) \div 2) + 1

EightPliesNumbered ==
    /\ PlayedIs(KingsideLine, 8)
    /\ ret = "True"
    /\ [i \in 1..8 |-> move_history[i].move_number] = <<1, 1, 2, 2, 3, 3, 4, 4>>

(***************************************************************************)
(* Position.to_algebraic and Position.from_algebraic: a Position of the    *)
(* board is written, or a caller types a string, and the string is read.   *)
(***************************************************************************)
Typed ==
    {<<f, d>> : f \in {"a", "h", "A", "E", "i"}, d \in {"0", "1", "8", "9"}}
        \cup {<<"e">>, <<"e", "4", "4">>, <<"4", "e">>}

InitText ==
    /\ GameInit
    /\ CopyIdle
    /\ ControllerInit
    /\ given \in Squares
    /\ written = <<>>
    /\ parsed = <<>>

(* written = given.to_algebraic() *)
ToAlgebraic ==
    /\ written = <<>>
    /\ written' = to_algebraic(given)
    /\ UNCHANGED <<given, parsed>>
    /\ UNCHANGED <<game_vars, copy_vars>>
    /\ UNCHANGED ctrl_vars

(* a string that comes from a caller, not from a Position *)
TypeNotation ==
    /\ written = <<>>
    /\ \E notation \in Typed : written' = notation
    /\ given' = <<>>
    /\ UNCHANGED parsed
    /\ UNCHANGED <<game_vars, copy_vars>>
    /\ UNCHANGED ctrl_vars

(* parsed = Position.from_algebraic(written) *)
FromAlgebraic ==
    /\ written # <<>>
    /\ parsed = <<>>
    /\ parsed' = from_algebraic(written)
    /\ UNCHANGED <<given, written>>
    /\ UNCHANGED <<game_vars, copy_vars>>
    /\ UNCHANGED ctrl_vars

NextText == ToAlgebraic \/ TypeNotation \/ FromAlgebraic

SpecText == InitText /\ [][NextText]_vars

(***************************************************************************)
(* C20: for every Position p with row and column in 0..7,                  *)
(* Position.from_algebraic(p.to_algebraic()) equals p.                     *)
(***************************************************************************)
RoundTrip ==
    (given # <<>> /\ parsed # <<>>) => (written = to_algebraic(given) /\ parsed = given)

(* Position(4, 4) written "e4" and read back *)
E4ReadBack ==
    /\ given = <<4, 4>>
    /\ written = <<"e", "4">>
    /\ parsed = <<4, 4>>

(***************************************************************************)
(* C21: Board.move_piece(start, end) with no piece at start fails with an  *)
(* error and leaves the board unchanged; with a piece at start it returns  *)
(* the piece previously on end (or none), leaves start empty, puts the     *)
(* mover on end with has_moved true, and changes no other square.          *)
(***************************************************************************)
(* the call moved' records, made on the board of grid g, left grid g2 *)
MovePieceEffect(g, g2) ==
    LET start == moved'.start
        end == moved'.end
    IN  IF g[start] = NullRef
        THEN /\ moved'.returned = Raised
             /\ g2 = g
             /\ Shown(objects', g2) = Shown(objects, g)
        ELSE /\ moved'.returned = g[end]
             /\ g2[start] = NullRef
             /\ g2[end] = g[start]
             /\ objects'[g[start]].has_moved
             /\ objects'[g[start]].piece_type = objects[g[start]].piece_type
             /\ objects'[g[start]].color = objects[g[start]].color
             /\ \A sq \in Squares \ {start, end} :
                    /\ g2[sq] = g[sq]
                    /\ Shown(objects', g2)[sq] = Shown(objects, g)[sq]

MovePieceStep ==
    moved' # NoMove =>
        IF last_op' = "board" THEN MovePieceEffect(grid, grid')
        ELSE MovePieceEffect(new_board, new_board')

MovePieceContract == [][MovePieceStep]_vars

(* the same for the calls with two different squares *)
MovePieceContractTwoSquares ==
    [][moved'.start # moved'.end => MovePieceStep]_vars

(***************************************************************************)
(* C22: get_legal_moves and make_move agree: in every reachable state with *)
(* game_over false and for every square p holding a piece of the side to   *)
(* move, the destinations d for which make_move(p, d) would return true    *)
(* are exactly the squares get_legal_moves(p) returns.                     *)
(***************************************************************************)
Playable(p) == {d \in Squares : make_move(self, p, d).ret = "True"}

LegalMovesArePlayableMoves ==
    ~game_over =>
        \A p \in Squares :
            board[p].color = current_turn => Playable(p) = get_legal_moves(self, p)

(***************************************************************************)
(* C23: after every successful make_move, castling, en passant and         *)
(* promotion included, the king of the player who just moved is not        *)
(* attacked; hence check_status is never true for both colours at once and *)
(* never true for the side that is not to move.                            *)
(***************************************************************************)
MoverKingNotAttacked ==
    /\ \A k \in KingSquares(board, Other(current_turn)) :
            ~Attacked(board, k, current_turn)
    /\ ~(check_status.white /\ check_status.black)
    /\ ~check_status[Other(current_turn)]

(* 4.exd6 e.p.+: the pawn taken has left d5, black is in check, white is not *)
EnPassantChecksBlackOnly ==
    /\ PlayedIs(EnPassantCheckLine, 7)
    /\ ret = "True"
    /\ current_turn = "black"
    /\ Empty(board, <<3, 3>>) /\ Empty(board, <<3, 4>>)
    /\ board[<<2, 3>>].piece_type = "P" /\ board[<<2, 3>>].color = "white"
    /\ check_status.black /\ ~check_status.white
    /\ \E k \in KingSquares(board, "black") : Attacked(board, k, "white")

(***************************************************************************)
(* C24: check_status is never stale: in the initial state and after every  *)
(* successful make_move, check_status[c] is true exactly when colour c's   *)
(* king is attacked by an opposing piece on the current board, for both    *)
(* colours.                                                                *)
(***************************************************************************)
KingAttacked(color) ==
    \E k \in KingSquares(board, color) : Attacked(board, k, Other(color))

CheckStatusIsCurrent ==
    \A color \in {"white", "black"} : check_status[color] <=> KingAttacked(color)

(* 6...Re8+ in answer to 4.exf7+: black's check is over, white's has begun *)
CheckPassedToWhite ==
    /\ PlayedIs(RookCheckLine, 12)
    /\ ret = "True"
    /\ move_history[7].is_check
    /\ check_status.white /\ KingAttacked("white")
    /\ ~check_status.black /\ ~KingAttacked("black")

(***************************************************************************)
(* C25: castling rights are lost for good: once a king or a rook has been  *)
(* relocated by a successful move (as the king or the rook of a castle     *)
(* too), its has_moved stays true for the rest of the game, and no later   *)
(* make_move castles with that king or that rook, even after it has        *)
(* returned to its original square.                                        *)
(***************************************************************************)
(* a king or rook whose has_moved is false stands where it stood, with     *)
(* has_moved false, before the call: it has never been relocated           *)
UnmovedStoodStill ==
    \A sq \in Squares :
        (board'[sq].piece_type \in {"K", "R"} /\ ~board'[sq].has_moved) =>
            /\ board[sq].piece_type = board'[sq].piece_type
            /\ board[sq].color = board'[sq].color
            /\ ~board[sq].has_moved

(* a castle is made with a king and a rook whose has_moved is false *)
CastleWithUnmoved ==
    (ret' = "True" /\ MoveRecorded) =>
        LET r == LastRecord'
            corner == <<r.start[1], IF r.end[2] > r.start[2] THEN 7 ELSE 0>>
        IN  (board[r.start].piece_type = "K" /\ abs(r.end[2] - r.start[2]) = 2) =>
                /\ ~board[r.start].has_moved
                /\ board[corner].piece_type = "R"
                /\ ~board[corner].has_moved

CastlingRightsLostForGood == [][UnmovedStoodStill /\ CastleWithUnmoved]_vars

(* the white king is back on e1 after Kf1, Kg1, Kf1, Ke1, next to the rook *)
(* on h1 that never moved, f1 and g1 empty: e1-g1 is not accepted          *)
KingBackHomeCannotCastle ==
    /\ PlayedIs(KingWalkLine, 14)
    /\ ret = "True"
    /\ board[<<7, 4>>].piece_type = "K" /\ board[<<7, 4>>].has_moved
    /\ board[<<7, 7>>].piece_type = "R" /\ ~board[<<7, 7>>].has_moved
    /\ Empty(board, <<7, 5>>) /\ Empty(board, <<7, 6>>)
    /\ make_move(self, <<7, 4>>, <<7, 6>>).ret = "False"

(***************************************************************************)
(* C26: effect of castling: after a successful castling make_move from     *)
(* (r,4), kingside leaves the king on (r,6) and the rook on (r,5) with     *)
(* (r,4) and (r,7) empty; queenside leaves the king on (r,2) and the rook  *)
(* on (r,3) with (r,0), (r,1) and (r,4) empty; both pieces have has_moved  *)
(* true, no capture is recorded, the record has is_castling true, and      *)
(* every other square is unchanged.                                        *)
(***************************************************************************)
CastlingEffect(r, king_col, rook_col, emptied) ==
    LET color == board[<<r, 4>>].color
        touched == {<<r, king_col>>, <<r, rook_col>>} \cup {<<r, c>> : c \in emptied}
    IN  /\ board'[<<r, king_col>>].piece_type = "K"
        /\ board'[<<r, king_col>>].color = color
        /\ board'[<<r, king_col>>].has_moved
        /\ board'[<<r, rook_col>>].piece_type = "R"
        /\ board'[<<r, rook_col>>].color = color
        /\ board'[<<r, rook_col>>].has_moved
        /\ \A c \in emptied : Empty(board', <<r, c>>)
        /\ \A sq \in Squares \ touched : board'[sq] = board[sq]
        /\ captured_pieces' = captured_pieces
        /\ LastRecord'.captured_piece = "None"
        /\ LastRecord'.is_castling

CastlingEffectStep ==
    (ret' = "True" /\ MoveRecorded) =>
        LET start == LastRecord'.start
            end == LastRecord'.end
        IN  (board[start].piece_type = "K" /\ abs(end[2] - start[2]) = 2) =>
                /\ start[2] = 4
                /\ end[1] = start[1]
                /\ IF end[2] > start[2]
                   THEN CastlingEffect(start[1], 6, 5, {4, 7})
                   ELSE CastlingEffect(start[1], 2, 3, {0, 1, 4})

CastlingMovesKingAndRook == [][CastlingEffectStep]_vars

(* 5.O-O-O O-O-O *)
BothCastledQueenside ==
    /\ PlayedIs(QueensideLine, 10)
    /\ ret = "True"
    /\ move_history[9].is_castling /\ LastRecord.is_castling
    /\ \A r \in {0, 7} :
          /\ board[<<r, 2>>].piece_type = "K" /\ board[<<r, 3>>].piece_type = "R"
          /\ Empty(board, <<r, 0>>) /\ Empty(board, <<r, 1>>) /\ Empty(board, <<r, 4>>)
    /\ captured_pieces.white = <<>> /\ captured_pieces.black = <<>>

(***************************************************************************)
(* C27: effect of en passant: a successful en passant make_move(start,     *)
(* end) empties the square (start.row, end.col) that held the opposing     *)
(* pawn, puts the capturing pawn on end, appends exactly one 'P' to the    *)
(* mover's captured list, produces a record with is_en_passant true and    *)
(* captured kind 'P', and leaves every other square unchanged.             *)
(***************************************************************************)
EnPassantEffectStep ==
    (ret' = "True" /\ MoveRecorded) =>
        LET start == LastRecord'.start
            end == LastRecord'.end
            taken == <<start[1], end[2]>>
            color == board[start].color
        IN  (board[start].piece_type = "P" /\ start[2] # end[2] /\ Empty(board, end)) =>
                /\ board[taken].piece_type = "P" /\ board[taken].color = Other(color)
                /\ Empty(board', taken)
                /\ Empty(board', start)
                /\ board'[end].piece_type = "P" /\ board'[end].color = color
                /\ captured_pieces'[color] = Append(captured_pieces[color], "P")
                /\ captured_pieces'[Other(color)] = captured_pieces[Other(color)]
                /\ LastRecord'.is_en_passant
                /\ LastRecord'.captured_piece = "P"
                /\ \A sq \in Squares \ {start, end, taken} : board'[sq] = board[sq]

EnPassantRemovesPassedPawn == [][EnPassantEffectStep]_vars

(* 3.exd6 e.p.: d5 and e5 are empty, the white pawn stands on d6 *)
EnPassantCaptureMade ==
    /\ PlayedIs(EnPassantLine, 5)
    /\ ret = "True"
    /\ LastRecord.is_en_passant /\ LastRecord.captured_piece = "P"
    /\ Empty(board, <<3, 3>>) /\ Empty(board, <<3, 4>>)
    /\ board[<<2, 3>>].piece_type = "P" /\ board[<<2, 3>>].color = "white"
    /\ captured_pieces.white = <<"P">> /\ captured_pieces.black = <<>>

(***************************************************************************)
(* C28: in every state reachable through make_move,                        *)
(* is_en_passant_legal(board, start, end, last_move) returns true exactly  *)
(* when the piece on start is a pawn, last_move was a pawn of the opposite *)
(* colour advancing exactly two ranks and landing on the mover's rank      *)
(* exactly one file away, and end is the square one rank forward (in the   *)
(* mover's direction) on the landed pawn's file; the rank test of the code *)
(* (row 3 for white, row 4 for black) rejects no such capture.             *)
(***************************************************************************)
EnPassantConditions(start, end) ==
    /\ last_move # <<>>
    /\ board[start].piece_type = "P"
    /\ last_move[3].piece_type = "P"
    /\ last_move[3].color = Other(board[start].color)
    /\ abs(last_move[2][1] - last_move[1][1]) = 2
    /\ last_move[2][1] = start[1]
    /\ abs(last_move[2][2] - start[2]) = 1
    /\ end = <<start[1] + (IF board[start].color = "white" THEN -1 ELSE 1), last_move[2][2]>>

EnPassantLegalExactly ==
    \A start \in Squares : \A end \in Squares :
        is_en_passant_legal(board, start, end, last_move) <=> EnPassantConditions(start, end)

(* 1.e4 a6 2.e5 d5: e5xd6 is an en passant capture, and the only one *)
EnPassantAvailable ==
    /\ PlayedIs(EnPassantLine, 4)
    /\ ret = "True"
    /\ is_en_passant_legal(board, <<3, 4>>, <<2, 3>>, last_move)
    /\ \A start \in Squares : \A end \in Squares :
          is_en_passant_legal(board, start, end, last_move)
              => (start = <<3, 4>> /\ end = <<2, 3>>)

(***************************************************************************)
(* C29: no stuck game: in every reachable state with game_over false, the  *)
(* side to move has at least one (start, end) for which make_move returns  *)
(* true; a position in which the side to move has no acceptable move is    *)
(* reported as game over by the move that produced it.                     *)
(***************************************************************************)
SomeMoveAccepted ==
    \E start \in Squares : \E end \in Squares : make_move(self, start, end).ret = "True"

NoStuckGame == ~game_over => SomeMoveAccepted

(* 6...Re8+: the white king has no move of its own, the game goes on and *)
(* another white piece can answer the check                              *)
CheckedKingCannotMoveGameGoesOn ==
    /\ PlayedIs(RookCheckLine, 12)
    /\ ret = "True"
    /\ ~game_over
    /\ check_status.white
    /\ \A end \in Squares : make_move(self, <<7, 4>>, end).ret # "True"
    /\ SomeMoveAccepted

(***************************************************************************)
(* C30: every state reachable from the initial position has exactly one    *)
(* white king and exactly one black king on the board, and the kind 'K'    *)
(* never appears in either captured-pieces list.                           *)
(***************************************************************************)
Captured(color) == {captured_pieces[color][i] : i \in 1..Len(captured_pieces[color])}

OneKingEach ==
    \A color \in {"white", "black"} :
        /\ Cardinality(KingSquares(board, color)) = 1
        /\ "K" \notin Captured(color)

(* 10.Qe6 stalemate after six captures by the white queen *)
KingsStandAfterManyCaptures ==
    /\ PlayedIs(StalemateLine, 19)
    /\ ret = "True"
    /\ captured_pieces.white = <<"P", "P", "P", "P", "N", "B">>
    /\ Captured("white") = {"P", "N", "B"}
    /\ Cardinality(KingSquares(board, "white")) = 1
    /\ Cardinality(KingSquares(board, "black")) = 1

(***************************************************************************)
(* C31: capture bookkeeping: a successful make_move that captures appends  *)
(* the captured piece's kind to the list of the capturing (moving) colour  *)
(* only, and a move that does not capture leaves both lists unchanged;     *)
(* hence in every reachable state, for each colour c, the number of pieces *)
(* of colour c on the board plus the number of entries captured by the     *)
(* opponent of c equals 16.                                                *)
(***************************************************************************)
PiecesOf(color) == {sq \in Squares : board[sq].color = color}

SixteenPerColour ==
    \A color \in {"white", "black"} :
        Cardinality(PiecesOf(color)) + Len(captured_pieces[Other(color)]) = 16

CaptureStep ==
    (ret' = "True" /\ MoveRecorded) =>
        LET start == LastRecord'.start
            end == LastRecord'.end
            mover == board[start].color
            en_passant == board[start].piece_type = "P" /\ start[2] # end[2] /\ Empty(board, end)
            taken == IF en_passant THEN "P" ELSE board[end].piece_type
        IN  /\ captured_pieces'[mover] =
                    IF taken = "None" THEN captured_pieces[mover]
                    ELSE Append(captured_pieces[mover], taken)
            /\ captured_pieces'[Other(mover)] = captured_pieces[Other(mover)]

CaptureBookkeeping == []SixteenPerColour /\ [][CaptureStep]_vars

(* 4...hxg2 5.axb7 gxh1 6.bxa8: a pawn and a rook taken by each side *)
BothSidesCaptured ==
    /\ PlayedIs(BlackPromotionLine, 11)
    /\ ret = "True"
    /\ captured_pieces.white = <<"P", "R">>
    /\ captured_pieces.black = <<"P", "R">>
    /\ Cardinality(PiecesOf("white")) = 14 /\ Cardinality(PiecesOf("black")) = 14

(***************************************************************************)
(* C32: the move history is append-only during a game: each successful     *)
(* make_move appends exactly one MoveRecord (player = the mover, kind =    *)
(* the piece that moved, a promoting pawn being recorded as 'P') and       *)
(* leaves all earlier records unchanged, so the previous history is a      *)
(* prefix of the new one; failed calls append nothing.                     *)
(***************************************************************************)
HistoryStep ==
    IF ret' = "True"
    THEN /\ Len(move_history') = Len(move_history) + 1
         /\ SubSeq(move_history', 1, Len(move_history)) = move_history
         /\ LastRecord'.player = current_turn
         /\ LastRecord'.player = board[LastRecord'.start].color
         /\ LastRecord'.piece_type = board[LastRecord'.start].piece_type
    ELSE move_history' = move_history

HistoryAppendOnly == [][HistoryStep]_vars

(* 5.hxg8: the ninth record is of a pawn and a queen stands on g8 *)
PromotionRecordedAsPawn ==
    /\ PlayedIs(PromotionLine, 9)
    /\ ret = "True"
    /\ Len(move_history) = 9
    /\ LastRecord.piece_type = "P" /\ LastRecord.player = "white"
    /\ board[LastRecord.end].piece_type = "Q"


(***************************************************************************)
(* C33: the legality queries are read-only.  The only statements of the    *)
(* query code that change an object are those of would_leave_in_check and *)
(* would_leave_in_check_en_passant, and they act on a clone: when either  *)
(* has returned, the grid of the board and of any other board refer to    *)
(* the objects they referred to, every one of these objects has the       *)
(* fields it had (kind, colour, position, has_moved), and every field of  *)
(* the game state is what it was.                                         *)
(***************************************************************************)
SameBoard(h1, g1, h2, g2) ==
    /\ g2 = g1
    /\ \A sq \in Squares : g1[sq] # NullRef => h2[g1[sq]] = h1[g1[sq]]

QueryStep ==
    last_op' = "query" /\ ops' = ops + 1 =>
        /\ SameBoard(objects, grid, objects', grid')
        /\ (new_board = <<>> => new_board' = <<>>)
        /\ (new_board # <<>> => SameBoard(objects, new_board, objects', new_board'))
        /\ UNCHANGED game_vars

QueriesAreReadOnly == [][QueryStep]_vars

(* a query has answered on a board changed by a move before it, while a *)
(* copy of the board is held                                            *)
QueryAnsweredAfterMove ==
    /\ last_op = "query"
    /\ ops = 2
    /\ new_board # <<>>
    /\ Shown(objects, grid) # Shown(Board_setup.objects, Board_setup.grid)

(***************************************************************************)
(* C34: pawn double advance.  A pawn is offered, and make_move accepts, an *)
(* advance of two squares only when its has_moved is false and the square *)
(* directly ahead and the destination are both empty; in every reachable  *)
(* state a piece whose has_moved is false stands on the square it has in  *)
(* the initial position, so that two-square advances are made only from   *)
(* row 6 by white and from row 1 by black.                                *)
(***************************************************************************)
PawnHomeRow(color) == IF color = "white" THEN 6 ELSE 1

Forward(color) == IF color = "white" THEN -1 ELSE 1

UnmovedOnHomeSquare ==
    \A sq \in Squares :
        (~Empty(board, sq) /\ ~board[sq].has_moved) =>
            /\ setup_initial_position[sq].piece_type = board[sq].piece_type
            /\ setup_initial_position[sq].color = board[sq].color

(* the pawn on sq can go two squares on: never moved, on its home row, and *)
(* nothing on the two squares ahead                                        *)
DoubleAdvanceConditions(b, sq) ==
    /\ ~b[sq].has_moved
    /\ sq[1] = PawnHomeRow(b[sq].color)
    /\ Empty(b, <<sq[1] + Forward(b[sq].color), sq[2]>>)
    /\ Empty(b, <<sq[1] + 2 * Forward(b[sq].color), sq[2]>>)

DoubleAdvanceOffered ==
    \A sq \in Squares :
        board[sq].piece_type = "P" =>
            \A end \in get_possible_moves(board, board[sq], TRUE) :
                (end[2] = sq[2] /\ abs(end[1] - sq[1]) = 2) =>
                    DoubleAdvanceConditions(board, sq)

DoubleAdvanceStep ==
    (/\ ret' = "True"
     /\ LastRecord'.piece_type = "P"
     /\ abs(LastRecord'.end[1] - LastRecord'.start[1]) = 2) =>
        /\ LastRecord'.end[2] = LastRecord'.start[2]
        /\ DoubleAdvanceConditions(board, LastRecord'.start)

PawnDoubleAdvance ==
    /\ [](UnmovedOnHomeSquare /\ DoubleAdvanceOffered)
    /\ [][DoubleAdvanceStep]_vars

(* 1.e4 e5: both sides have made a two-square advance, and the two pawns *)
(* that made them face each other with has_moved true                    *)
BothSidesAdvancedTwo ==
    /\ Len(move_history) = 2
    /\ ret = "True"
    /\ \A i \in 1..2 :
          /\ move_history[i].piece_type = "P"
          /\ abs(move_history[i].end[1] - move_history[i].start[1]) = 2
    /\ board[<<4, 4>>].has_moved /\ board[<<3, 4>>].has_moved

(***************************************************************************)
(* C35: every call of is_legal_move, get_legal_moves and make_move         *)
(* terminates.  King.get_possible_moves calls can_castle, which calls     *)
(* is_under_attack, which generates the moves of the opposing pieces, the *)
(* king's with include_castling=False: in every reachable state the calls *)
(* nested in the move generation of any piece are at most three deep      *)
(* (can_castle, is_under_attack, get_possible_moves), and every make_move *)
(* has returned or raised.                                                *)
(***************************************************************************)
Outcomes == {"None", "True", "False", "ValueError"}

RecursionIsBounded ==
    /\ ret \in Outcomes
    /\ \A sq \in Squares :
          ~Empty(board, sq) => get_possible_moves_depth(board, board[sq], TRUE, 0) <= 3

(* moves have been made and the generation of the moves of a king that *)
(* may castle goes three calls deep and ends                           *)
CastlingGenerationNested ==
    /\ Len(move_history) > 0
    /\ \E sq \in Squares :
          /\ board[sq].piece_type = "K"
          /\ get_possible_moves_depth(board, board[sq], TRUE, 0) = 3
          /\ Position(sq[1], sq[2] + 2) \in get_possible_moves(board, board[sq], TRUE)

(***************************************************************************)
(* GameController: the events of the game loop.  A controller is a record  *)
(* of its game_state, the value its last make_move returned, and its       *)
(* fields selected_position, legal_moves_cache, fullscreen, running and    *)
(* board_renderer.board_orientation.  The fields that only drive the       *)
(* drawing (last_move_positions, last_move_timer, hover_position, the      *)
(* layout and the images) are not part of it.                              *)
(***************************************************************************)
(* number of moves a game of the controller is followed for *)
MaxPlies == 4

(* the squares the clicks land on: e2 e4 f2 f3 g2 g4 for white's moves, *)
(* e7 e5 d8 h4 for black's                                              *)
ClickSquares ==
    {<<6, 4>>, <<4, 4>>, <<6, 5>>, <<5, 5>>, <<6, 6>>, <<4, 6>>,
     <<1, 4>>, <<3, 4>>, <<0, 3>>, <<4, 7>>}

(* the controller the variables hold *)
controller ==
    [game_state |-> self, ret |-> ret,
     selected_position |-> selected_position,
     legal_moves_cache |-> legal_moves_cache,
     board_orientation |-> board_orientation,
     fullscreen |-> fullscreen,
     running |-> running]

(* board_renderer.get_board_position(screen_pos), with visual the square of *)
(* the screen the click is on, <<>> when it is outside the board           *)
get_board_position(orientation, visual) ==
    IF visual = <<>> THEN <<>>
    ELSE IF orientation = 180 THEN <<7 - visual[1], 7 - visual[2]>>
    ELSE visual

Deselected(c) == [c EXCEPT !.selected_position = <<>>, !.legal_moves_cache = {}]

(* mutant: the cache holds the candidate moves of the piece, not filtered *)
select_piece_unfiltered(c, position) ==
    LET piece == get_piece(c.game_state.board, position)
    IN  IF piece = None THEN Deselected(c)
        ELSE IF piece.color # c.game_state.current_turn THEN Deselected(c)
        ELSE [c EXCEPT !.selected_position = position,
                       !.legal_moves_cache =
                           get_possible_moves(c.game_state.board, piece, TRUE)]

select_piece(c, position) ==
    LET piece == get_piece(c.game_state.board, position)
    IN  IF piece = None THEN Deselected(c)
        ELSE IF piece.color # c.game_state.current_turn THEN Deselected(c)
        ELSE [c EXCEPT !.selected_position = position,
                       !.legal_moves_cache = get_legal_moves(c.game_state, position)]

(* execute_move, lines 350-360, with r what make_move returned and left: *)
(* the board is turned when the move was made                           *)
execute_move_done(c, r) ==
    [c EXCEPT !.game_state = r.gs,
              !.ret = r.ret,
              !.board_orientation = IF r.ret = "True" THEN (@ + 180) % 360 ELSE @]

(* execute_move(start, end): ret is success, "ValueError" when make_move *)
(* raised                                                                *)
execute_move(c, start, end) ==
    execute_move_done(c, make_move(c.game_state, start, end))

(* attempt_move, lines 327-329, with c as execute_move left it: the       *)
(* selection is cleared; an exception of make_move leaves the game loop, *)
(* and the program ends with the fields as they are                      *)
attempt_move_done(c) ==
    IF c.ret = "ValueError" THEN [c EXCEPT !.running = FALSE]
    ELSE Deselected(c)

(* mutant: the selection is kept when the move has been made *)
attempt_move_keeps_selection(c, end_position) ==
    IF c.selected_position = <<>> THEN c
    ELSE execute_move(c, c.selected_position, end_position)

(* attempt_move(end_position) *)
attempt_move(c, end_position) ==
    IF c.selected_position = <<>> THEN c
    ELSE attempt_move_done(execute_move(c, c.selected_position, end_position))

(* mutant: clicks are handled when the game is over *)
handle_mouse_click_after_end(c, board_pos) ==
    IF board_pos = <<>> THEN Deselected(c)
    ELSE IF c.selected_position # <<>>
    THEN IF board_pos \in c.legal_moves_cache THEN attempt_move(c, board_pos)
         ELSE LET piece == get_piece(c.game_state.board, board_pos)
              IN  IF piece # None /\ piece.color = c.game_state.current_turn
                  THEN select_piece(c, board_pos)
                  ELSE Deselected(c)
    ELSE select_piece(c, board_pos)

(* handle_mouse_click(screen_pos), from the board position of the click on *)
handle_mouse_click(c, board_pos) ==
    IF c.game_state.game_over THEN c
    ELSE IF board_pos = <<>> THEN Deselected(c)
    ELSE IF c.selected_position # <<>>
    THEN IF board_pos \in c.legal_moves_cache THEN attempt_move(c, board_pos)
         ELSE LET piece == get_piece(c.game_state.board, board_pos)
              IN  IF piece # None /\ piece.color = c.game_state.current_turn
                  THEN select_piece(c, board_pos)
                  ELSE Deselected(c)
    ELSE select_piece(c, board_pos)

(* mutant: the board stays as it was turned *)
restart_game_keeps_orientation(c) ==
    [c EXCEPT !.game_state = GameState,
              !.selected_position = <<>>,
              !.legal_moves_cache = {}]

(* _restart_game() *)
restart_game(c) ==
    [c EXCEPT !.game_state = GameState,
              !.selected_position = <<>>,
              !.legal_moves_cache = {},
              !.board_orientation = 0]

(* _toggle_fullscreen() *)
toggle_fullscreen(c) == [c EXCEPT !.fullscreen = ~@]

(* the fields are as the handler has left them *)
Handled(c) ==
    /\ board' = c.game_state.board
    /\ current_turn' = c.game_state.current_turn
    /\ move_history' = c.game_state.move_history
    /\ captured_pieces' = c.game_state.captured_pieces
    /\ check_status' = c.game_state.check_status
    /\ game_over' = c.game_state.game_over
    /\ winner' = c.game_state.winner
    /\ last_move' = c.game_state.last_move
    /\ ret' = c.ret
    /\ selected_position' = c.selected_position
    /\ legal_moves_cache' = c.legal_moves_cache
    /\ board_orientation' = c.board_orientation
    /\ fullscreen' = c.fullscreen
    /\ running' = c.running

(* the squares of the screen, and no square for a click off the board *)
Visuals == Squares \cup {<<>>}

(* MOUSEBUTTONDOWN: the click lands on one of ClickSquares or off the *)
(* board; a click that makes a move is followed for MaxPlies moves    *)
MouseClick ==
    /\ running
    /\ \E visual \in Visuals :
        \E board_pos \in {get_board_position(board_orientation, visual)} :
          /\ board_pos \in ClickSquares \cup {<<>>}
          /\ (board_pos \in legal_moves_cache /\ ~game_over) => Len(move_history) < MaxPlies
          /\ \E c \in {handle_mouse_click(controller, board_pos)} : Handled(c)
          /\ event' = [kind |-> "click", pos |-> board_pos]
    /\ UNCHANGED free
    /\ UNCHANGED copy_vars
    /\ UNCHANGED text_vars

(* KEYDOWN K_r *)
KeyRestart ==
    /\ running
    /\ \E c \in {restart_game(controller)} : Handled(c)
    /\ event' = [kind |-> "restart", pos |-> <<>>]
    /\ UNCHANGED free
    /\ UNCHANGED copy_vars
    /\ UNCHANGED text_vars

(* KEYDOWN K_f *)
KeyFullscreen ==
    /\ running
    /\ \E c \in {toggle_fullscreen(controller)} : Handled(c)
    /\ event' = [kind |-> "fullscreen", pos |-> <<>>]
    /\ UNCHANGED free
    /\ UNCHANGED copy_vars
    /\ UNCHANGED text_vars

(* QUIT, or KEYDOWN K_ESCAPE: the game loop ends *)
Quit ==
    /\ running
    /\ \E c \in {[controller EXCEPT !.running = FALSE]} : Handled(c)
    /\ event' = [kind |-> "quit", pos |-> <<>>]
    /\ UNCHANGED free
    /\ UNCHANGED copy_vars
    /\ UNCHANGED text_vars

NextController == MouseClick \/ KeyRestart \/ KeyFullscreen \/ Quit

SpecController == Init /\ [][NextController]_vars

(***************************************************************************)
(* C36: controller selection invariant.  After any sequence of clicks and  *)
(* restarts, whenever selected_position is set it holds a piece of the     *)
(* side to move and legal_moves_cache equals get_legal_moves of it for the *)
(* current game state; when it is unset the cache is empty; every          *)
(* make_move the controller issues returns true, and the selection is      *)
(* cleared after each attempt.                                             *)
(***************************************************************************)
SelectionIsCurrent ==
    IF selected_position = <<>> THEN legal_moves_cache = {}
    ELSE /\ ~Empty(board, selected_position)
         /\ board[selected_position].color = current_turn
         /\ legal_moves_cache = get_legal_moves(self, selected_position)

(* the click of this step makes the controller call make_move *)
MoveAttempted ==
    /\ event'.kind = "click"
    /\ running
    /\ ~game_over
    /\ selected_position # <<>>
    /\ event'.pos \in legal_moves_cache

AttemptStep ==
    MoveAttempted =>
        /\ ret' = "True"
        /\ Len(move_history') = Len(move_history) + 1
        /\ LastRecord'.start = selected_position
        /\ LastRecord'.end = event'.pos
        /\ selected_position' = <<>>
        /\ legal_moves_cache' = {}

SelectionInvariant == []SelectionIsCurrent /\ [][AttemptStep]_vars

(* 1.f3 e5 2.e4 Qh4+: the pawn on g2 is selected; it could go to g3 or g4, *)
(* and the cache holds g3 only, which stops the check                     *)
PawnSelectedInCheck ==
    /\ selected_position = <<6, 6>>
    /\ check_status.white
    /\ ~game_over
    /\ get_possible_moves(board, board[<<6, 6>>], TRUE) = {<<5, 6>>, <<4, 6>>}
    /\ legal_moves_cache = {<<5, 6>>}

(***************************************************************************)
(* C37: while game_over is true a mouse click at any position changes      *)
(* neither the game state nor the selection; only a restart leaves the     *)
(* game-over state; and a restart, at any time, yields the initial game    *)
(* state with white to move, empty history and captures, no selection and  *)
(* an empty legal-move cache.                                              *)
(***************************************************************************)
sel_vars == <<selected_position, legal_moves_cache>>

GameOverStep ==
    /\ (game_over /\ event'.kind = "click") => UNCHANGED <<gs_vars, sel_vars>>
    /\ (game_over /\ ~game_over') => event'.kind = "restart"
    /\ event'.kind = "restart" =>
          /\ self' = GameState
          /\ current_turn' = "white"
          /\ move_history' = <<>>
          /\ captured_pieces' = [white |-> <<>>, black |-> <<>>]
          /\ selected_position' = <<>>
          /\ legal_moves_cache' = {}

GameOverFreezesClicks == [][GameOverStep]_vars

(* fool's mate has been played on the controller and a click has come after *)
ClickedAfterMate ==
    /\ game_over
    /\ winner = "black"
    /\ event.kind = "click"
    /\ event.pos = <<6, 5>>
    /\ selected_position = <<>>

(***************************************************************************)
(* C38: the board is always oriented for the player to move: after any     *)
(* sequence of clicks, restarts and fullscreen toggles board_orientation   *)
(* is 0 exactly when current_turn is white and 180 exactly when it is      *)
(* black; it turns by 180 on every successful move and on nothing else,    *)
(* and a restart resets it to 0.                                           *)
(***************************************************************************)
OrientedForMover ==
    /\ board_orientation \in {0, 180}
    /\ board_orientation = 0 <=> current_turn = "white"
    /\ board_orientation = 180 <=> current_turn = "black"

OrientationStep ==
    /\ event'.kind = "restart" => board_orientation' = 0
    /\ Len(move_history') = Len(move_history) + 1 =>
           board_orientation' = (board_orientation + 180) % 360
    /\ (event'.kind # "restart" /\ move_history' = move_history) =>
           board_orientation' = board_orientation

OrientationFollowsTurn == []OrientedForMover /\ [][OrientationStep]_vars

(* after 1.f3 and a change to fullscreen the board is shown from black's side *)
TurnedForBlackInFullscreen ==
    /\ board_orientation = 180
    /\ current_turn = "black"
    /\ fullscreen
    /\ Len(move_history) = 1

(***************************************************************************)
(* C39: position bookkeeping of pieces: in every reachable state, and on   *)
(* the board Board.copy makes from it, the piece stored at grid[r][c] has  *)
(* position (r, c), after ordinary moves, castling, en passant and         *)
(* promotion, so that move generation, which starts from piece.position,   *)
(* starts from the square the piece stands on.                             *)
(***************************************************************************)
PositionsKept(b) ==
    \A sq \in Squares : ~Empty(b, sq) => b[sq].position = sq

PositionBookkeeping ==
    /\ PositionsKept(board)
    /\ PositionsKept(board_copy(board))

(* a castle has just been made: the king and the rook that went with it *)
(* hold the squares they now stand on                                   *)
CastledPiecesKnowTheirSquares ==
    /\ ret = "True"
    /\ Len(move_history) > 0
    /\ LastRecord.is_castling
    /\ board[LastRecord.end].piece_type = "K"
    /\ board[LastRecord.end].position = LastRecord.end
    /\ \E c \in {3, 5} :
          /\ board[<<LastRecord.end[1], c>>].piece_type = "R"
          /\ board[<<LastRecord.end[1], c>>].has_moved
          /\ board[<<LastRecord.end[1], c>>].position = <<LastRecord.end[1], c>>

====
